---- MODULE Spec2Model ----
(***************************************************************************)
(* k8s-resource-analyzer: the analysis engine (Analyzer.AnalyzeCluster and *)
(* the detectors it calls) as a state machine.                             *)
(*                                                                         *)
(* A run starts from a collected ClusterData snapshot (pc = "collected"),  *)
(* AnalyzeCluster turns it into an Analysis (pc = "analyzed").             *)
(*                                                                         *)
(* Go strings whose contents the code inspects (len, HasPrefix, Contains,  *)
(* ToLower) are sequences of one-character strings; strings the code only  *)
(* compares or copies are TLA+ strings.  A resource.Quantity is the        *)
(* integer the code reads from it (MilliValue for CPU, Value for memory).  *)
(* A time.Time is an integer number of hours since the zero time.Time      *)
(* (0001-01-01T00:00:00Z), so 0 is the zero time.Time; the clock is past   *)
(* the first week, so the zero time lies before every threshold the code   *)
(* computes.                                                               *)
(***************************************************************************)
EXTENDS Integers, Sequences, FiniteSets, TLC

VARIABLES
    done,      \* the detectors that have returned
    api,       \* what the listings of the API server return to CollectClusterData
    data,      \* the ClusterData snapshot handed to AnalyzeCluster
    clock,     \* the wall clock (time.Now())
    clockEnd,  \* how far the wall clock gets while AnalyzeCluster runs
    nowRead,   \* the time.Now() each detector read
    analysis,  \* the Analysis AnalyzeCluster returns
    ai,        \* func main: the AI client and the namespaces it is still to be asked about
    report,    \* func main: the report written
    pc

vars == <<done, api, data, clock, clockEnd, nowRead, analysis, ai, report, pc>>

(***************************************************************************)
(* Bounds of the model.                                                    *)
(***************************************************************************)
MaxGapPods == 2
MaxNodePods == 2
MaxNodes == 2
MaxNsPods == 4
MaxNamespaces == 2
MaxEvents == 2
MaxOOMEvents == 11
MaxSynthPods == 2
MaxStreamEvents == 3
MaxRestartPods == 2
MaxBackups == 2
MaxRabbitPods == 2
MaxMainPods == 2

(***************************************************************************)
(* String literals of the source and of the sampled snapshots.             *)
(***************************************************************************)
S_empty == <<>>
S_abc == <<"a", "b", "c">>
S_xyz == <<"x", "y", "z">>
S_prod == <<"p", "r", "o", "d">>
S_kube_prefix == <<"k", "u", "b", "e", "-">>
S_web == <<"w", "e", "b">>
S_flux == <<"f", "l", "u", "x">>
S_kustomization == <<"k", "u", "s", "t", "o", "m", "i", "z", "a", "t", "i", "o", "n">>
S_helmrelease == <<"h", "e", "l", "m", "r", "e", "l", "e", "a", "s", "e">>
S_fluxcd == <<"f", "l", "u", "x", "c", "d">>
S_toolkit_fluxcd == <<"t", "o", "o", "l", "k", "i", "t", ".", "f", "l", "u", "x", "c", "d">>
S_OOMKilled == <<"O", "O", "M", "K", "i", "l", "l", "e", "d">>
S_kubelet == <<"k", "u", "b", "e", "l", "e", "t">>
S_Flux_ctl == <<"F", "l", "u", "x", "-", "c", "t", "l">>
S_Pod == <<"P", "o", "d">>
S_HelmRelease == <<"H", "e", "l", "m", "R", "e", "l", "e", "a", "s", "e">>
S_Kustomization == <<"K", "u", "s", "t", "o", "m", "i", "z", "a", "t", "i", "o", "n">>
S_HelmReleaseList == <<"H", "e", "l", "m", "R", "e", "l", "e", "a", "s", "e", "L", "i", "s", "t">>
S_v1 == <<"v", "1">>
S_fluxcd_api == <<"h", "e", "l", "m", ".", "t", "o", "o", "l", "k", "i", "t", ".", "f", "l", "u", "x", "c", "d", ".", "i", "o", "/", "v", "2">>
S_BackOff == <<"B", "a", "c", "k", "O", "f", "f">>
S_restarting == <<"r", "e", "s", "t", "a", "r", "t", "i", "n", "g">>
S_OOMKilling == <<"O", "O", "M", "K", "i", "l", "l", "i", "n", "g">>
S_was_OOMKilled == <<"w", "a", "s", " ", "O", "O", "M", "K", "i", "l", "l", "e", "d">>
Stamp_2h_ago == <<"0", "0", "0", "1", "-", "0", "2", "-", "1", "1", "T", "1", "4", ":", "0", "0", ":", "0", "0", "Z">>
Stamp_1h_ago == <<"0", "0", "0", "1", "-", "0", "2", "-", "1", "1", "T", "1", "5", ":", "0", "0", ":", "0", "0", "Z">>
Stamp_2h_ago_offset == <<"0", "0", "0", "1", "-", "0", "2", "-", "1", "1", "T", "1", "6", ":", "0", "0", ":", "0", "0", "+", "0", "2", ":", "0", "0">>
Stamp_24h_ago == <<"0", "0", "0", "1", "-", "0", "2", "-", "1", "0", "T", "1", "6", ":", "0", "0", ":", "0", "0", "Z">>
Stamp_just_under_24h_ago == <<"0", "0", "0", "1", "-", "0", "2", "-", "1", "0", "T", "1", "6", ":", "0", "0", ":", "0", "1", "Z">>
Stamp_30h_ago == <<"0", "0", "0", "1", "-", "0", "2", "-", "1", "0", "T", "1", "0", ":", "0", "0", ":", "0", "0", "Z">>
Stamp_48h_ago == <<"0", "0", "0", "1", "-", "0", "2", "-", "0", "9", "T", "1", "6", ":", "0", "0", ":", "0", "0", "Z">>
Stamp_72h_ago == <<"0", "0", "0", "1", "-", "0", "2", "-", "0", "8", "T", "1", "6", ":", "0", "0", ":", "0", "0", "Z">>
Stamp_yesterday == <<"y", "e", "s", "t", "e", "r", "d", "a", "y">>
Stamp_no_T == <<"0", "0", "0", "1", "-", "0", "2", "-", "1", "1", " ", "1", "4", ":", "0", "0", ":", "0", "0", "Z">>
Stamp_february_30 == <<"0", "0", "0", "1", "-", "0", "2", "-", "3", "0", "T", "1", "4", ":", "0", "0", ":", "0", "0", "Z">>
S_rabbitmq_0 == <<"r", "a", "b", "b", "i", "t", "m", "q", "-", "0">>
S_RabbitMQ_1 == <<"R", "a", "b", "b", "i", "t", "M", "Q", "-", "1">>
S_web_1 == <<"w", "e", "b", "-", "1">>
S_rabbitmq == <<"r", "a", "b", "b", "i", "t", "m", "q">>
S_rabbit == <<"r", "a", "b", "b", "i", "t">>
S_Failed == <<"F", "a", "i", "l", "e", "d">>
S_PartiallyFailed == <<"P", "a", "r", "t", "i", "a", "l", "l", "y", "F", "a", "i", "l", "e", "d">>
S_Completed == <<"C", "o", "m", "p", "l", "e", "t", "e", "d">>
UpperCase == <<"A", "B", "C", "D", "E", "F", "G", "H", "I", "J", "K", "L", "M", "N", "O", "P", "Q", "R", "S", "T", "U", "V", "W", "X", "Y", "Z">>
LowerCase == <<"a", "b", "c", "d", "e", "f", "g", "h", "i", "j", "k", "l", "m", "n", "o", "p", "q", "r", "s", "t", "u", "v", "w", "x", "y", "z">>

(***************************************************************************)
(* The Go library functions the detectors call.                            *)
(***************************************************************************)
\* strings.ToLower, one character
ToLowerChar(c) ==
    IF \E i \in DOMAIN UpperCase : UpperCase[i] = c
    THEN LowerCase[CHOOSE i \in DOMAIN UpperCase : UpperCase[i] = c]
    ELSE c

\* strings.ToLower
ToLower(s) == [i \in DOMAIN s |-> ToLowerChar(s[i])]

\* strings.HasPrefix
HasPrefix(s, prefix) ==
    /\ Len(s) >= Len(prefix)
    /\ SubSeq(s, 1, Len(prefix)) = prefix

\* strings.Contains
Contains(s, substr) ==
    \E i \in 0..(Len(s) - Len(substr)) : SubSeq(s, i + 1, i + Len(substr)) = substr

\* time.Time.After
After(t, u) == t > u

\* time.Time.Add(-h * time.Hour)
AddHours(t, h) == t + h

\* A pointer that is nil or points to a value.
Nil == [isNil |-> TRUE]
PointerTo(v) == [isNil |-> FALSE, value |-> v]

\* A corev1.ResourceList: a Go map from resource name to Quantity, or nil.
NilList == [isNil |-> TRUE, items |-> {}]
EmptyList == [isNil |-> FALSE, items |-> {}]
CpuOnly(c) == [isNil |-> FALSE, items |-> {<<"cpu", c>>}]
MemoryOnly(m) == [isNil |-> FALSE, items |-> {<<"memory", m>>}]
CpuMemory(c, m) == [isNil |-> FALSE, items |-> {<<"cpu", c>>, <<"memory", m>>}]

\* ResourceList.Cpu() / ResourceList.Memory(): the entry, or a zero Quantity
\* when the key is missing (a lookup in a nil map finds nothing, too).
Lookup(rl, key) ==
    IF \E it \in rl.items : it[1] = key
    THEN (CHOOSE it \in rl.items : it[1] = key)[2]
    ELSE 0
Cpu(rl) == Lookup(rl, "cpu")
Memory(rl) == Lookup(rl, "memory")

\* Quantity.IsZero
IsZero(q) == q = 0

\* sort.Slice(list, less) where less compares one integer key with ">"
\* (largest key first).  On at most 12 elements sort.Slice is Go's insertion
\* sort: element i moves left while less(data[j], data[j-1]), so elements
\* with equal keys keep their order.  `keyed` is the list as <<key, element>>
\* pairs.
LessKey(x, y) == x[1] > y[1]

RECURSIVE InsertLeft(_, _)
InsertLeft(sorted, x) ==
    IF sorted = <<>> THEN <<x>>
    ELSE IF LessKey(x, sorted[Len(sorted)])
         THEN Append(InsertLeft(SubSeq(sorted, 1, Len(sorted) - 1), x), sorted[Len(sorted)])
         ELSE Append(sorted, x)

RECURSIVE SortKeyed(_)
SortKeyed(keyed) ==
    IF keyed = <<>> THEN <<>>
    ELSE InsertLeft(SortKeyed(SubSeq(keyed, 1, Len(keyed) - 1)), keyed[Len(keyed)])

\* The list as it was appended to, not sorted.
SortSliceSkipped(keyed) == [i \in DOMAIN keyed |-> keyed[i][2]]

SortSliceDescending(keyed) ==
    LET sorted == SortKeyed(keyed)
    IN [i \in DOMAIN sorted |-> sorted[i][2]]

(***************************************************************************)
(* analyzeResourceGaps                                                     *)
(***************************************************************************)
\* MissingRequests with "||" between the two IsZero tests.
MissingRequestsEitherZero(container) ==
    \/ container.Resources.Requests.isNil
    \/ (IsZero(Cpu(container.Resources.Requests)) \/ IsZero(Memory(container.Resources.Requests)))

MissingRequests(container) ==
    \/ container.Resources.Requests.isNil
    \/ (IsZero(Cpu(container.Resources.Requests)) /\ IsZero(Memory(container.Resources.Requests)))

MissingLimits(container) ==
    \/ container.Resources.Limits.isNil
    \/ (IsZero(Cpu(container.Resources.Limits)) /\ IsZero(Memory(container.Resources.Limits)))

ResourceGap(pod, container) ==
    [Namespace |-> pod.Namespace,
     PodName |-> pod.Name,
     Container |-> container.Name,
     MissingRequests |-> MissingRequests(container),
     MissingLimits |-> MissingLimits(container)]

RECURSIVE ContainerGaps(_, _)
ContainerGaps(pod, containers) ==
    IF containers = <<>> THEN <<>>
    ELSE LET gap == ResourceGap(pod, Head(containers))
         IN (IF gap.MissingRequests \/ gap.MissingLimits THEN <<gap>> ELSE <<>>)
            \o ContainerGaps(pod, Tail(containers))

RECURSIVE analyzeResourceGaps(_)
analyzeResourceGaps(pods) ==
    IF pods = <<>> THEN <<>>
    ELSE ContainerGaps(Head(pods), Head(pods).Spec.Containers)
         \o analyzeResourceGaps(Tail(pods))

(***************************************************************************)
(* analyzeNodes                                                            *)
(***************************************************************************)
\* A float64 quotient x / y of two non-negative whole numbers: NaN for 0/0,
\* +Inf for x/0 with x > 0 (Go's float division does not panic), else the
\* ratio num/den.  The sampled quantities are far below 2^53, where the
\* rounding of x/y*100 cannot move a value across 80, 75, 50 or 25.
FloatDiv(x, y) ==
    IF y = 0
    THEN (IF x = 0 THEN [kind |-> "NaN", num |-> 0, den |-> 1]
                   ELSE [kind |-> "+Inf", num |-> 0, den |-> 1])
    ELSE [kind |-> "finite", num |-> x, den |-> y]

\* f * 100
Times100(f) == [f EXCEPT !.num = f.num * 100]

\* f > k for a whole number k: false for NaN, true for +Inf.
FloatGreater(f, k) ==
    CASE f.kind = "NaN" -> FALSE
      [] f.kind = "+Inf" -> TRUE
      [] OTHER -> f.num > k * f.den

RECURSIVE ContainersRequestedCPU(_)
ContainersRequestedCPU(containers) ==
    IF containers = <<>> THEN 0
    ELSE Cpu(Head(containers).Resources.Requests) + ContainersRequestedCPU(Tail(containers))

RECURSIVE ContainersRequestedMemory(_)
ContainersRequestedMemory(containers) ==
    IF containers = <<>> THEN 0
    ELSE Memory(Head(containers).Resources.Requests) + ContainersRequestedMemory(Tail(containers))

OnNode(pod, node) == pod.Spec.NodeName = node.Name

RECURSIVE requestedCPU(_, _)
requestedCPU(node, pods) ==
    IF pods = <<>> THEN 0
    ELSE (IF OnNode(Head(pods), node)
          THEN ContainersRequestedCPU(Head(pods).Spec.Containers) ELSE 0)
         + requestedCPU(node, Tail(pods))

RECURSIVE requestedMemory(_, _)
requestedMemory(node, pods) ==
    IF pods = <<>> THEN 0
    ELSE (IF OnNode(Head(pods), node)
          THEN ContainersRequestedMemory(Head(pods).Spec.Containers) ELSE 0)
         + requestedMemory(node, Tail(pods))

allocatableCPU(node) == Cpu(node.Status.Allocatable)
allocatableMemory(node) == Memory(node.Status.Allocatable)

cpuPercent(node, pods) == Times100(FloatDiv(requestedCPU(node, pods), allocatableCPU(node)))
memPercent(node, pods) == Times100(FloatDiv(requestedMemory(node, pods), allocatableMemory(node)))

\* HighCPU with ">=" for ">".
HighCPUAtLeast(node, pods) ==
    \/ FloatGreater(cpuPercent(node, pods), 80)
    \/ (cpuPercent(node, pods).kind = "finite"
        /\ cpuPercent(node, pods).num = 80 * cpuPercent(node, pods).den)

HighCPU(node, pods) == FloatGreater(cpuPercent(node, pods), 80)
HighMemory(node, pods) == FloatGreater(memPercent(node, pods), 80)

\* The four float fields hold value/1000 (cores) and value/1024^3 (GiB); they
\* are kept as <<value, divisor>>.
NodeIssue(node, pods, issue) ==
    [NodeName |-> node.Name,
     Issue |-> issue,
     RequestedCPU |-> <<requestedCPU(node, pods), 1000>>,
     RequestedMemory |-> <<requestedMemory(node, pods), 1024 * 1024 * 1024>>,
     AllocatableCPU |-> <<allocatableCPU(node), 1000>>,
     AllocatableMemory |-> <<allocatableMemory(node), 1024 * 1024 * 1024>>]

NodeIssuesOf(node, pods) ==
    (IF HighCPU(node, pods) THEN <<NodeIssue(node, pods, "High CPU requests")>> ELSE <<>>)
    \o (IF HighMemory(node, pods) THEN <<NodeIssue(node, pods, "High memory requests")>> ELSE <<>>)

RECURSIVE analyzeNodes(_, _)
analyzeNodes(nodes, pods) ==
    IF nodes = <<>> THEN <<>>
    ELSE NodeIssuesOf(Head(nodes), pods) \o analyzeNodes(Tail(nodes), pods)

(***************************************************************************)
(* analyzeOOMEvents                                                        *)
(***************************************************************************)
\* IsOOMEvent looking at the reason only.
IsOOMEventByReason(event) == Contains(event.Reason, S_OOMKilled)

IsOOMEvent(event) ==
    \/ Contains(event.Reason, S_OOMKilled)
    \/ Contains(event.Message, S_OOMKilled)

OOMEvent(event) ==
    [NodeName |-> event.Source.Host,
     PodName |-> event.InvolvedObject.Name,
     Namespace |-> event.InvolvedObject.Namespace,
     Container |-> event.InvolvedObject.FieldPath,
     Timestamp |-> event.LastTimestamp,
     Reason |-> event.Reason]

RECURSIVE CollectOOMEvents(_)
CollectOOMEvents(events) ==
    IF events = <<>> THEN <<>>
    ELSE (IF IsOOMEvent(Head(events)) THEN <<OOMEvent(Head(events))>> ELSE <<>>)
         \o CollectOOMEvents(Tail(events))

analyzeOOMEvents(events) ==
    LET oomEvents == CollectOOMEvents(events)
    IN SortSliceDescending([i \in DOMAIN oomEvents |-> <<oomEvents[i].Timestamp, oomEvents[i]>>])

(***************************************************************************)
(* analyzeNamespaces                                                       *)
(***************************************************************************)
\* IsAppNamespace without the length test.
IsAppNamespaceAnyLength(ns) == ~HasPrefix(ns.Name, S_kube_prefix)

\* "Filter application namespaces (3-letter codes)"
IsAppNamespace(ns) == Len(ns.Name) = 3 /\ ~HasPrefix(ns.Name, S_kube_prefix)

\* The keys of nsMap.
nsMapKeys(namespaces) ==
    {namespaces[i].Name : i \in {j \in DOMAIN namespaces : IsAppNamespace(namespaces[j])}}

hasRequests(pod) ==
    \E i \in DOMAIN pod.Spec.Containers :
        LET container == pod.Spec.Containers[i]
        IN /\ ~container.Resources.Requests.isNil
           /\ (~IsZero(Cpu(container.Resources.Requests))
               \/ ~IsZero(Memory(container.Resources.Requests)))

hasLimits(pod) ==
    \E i \in DOMAIN pod.Spec.Containers :
        LET container == pod.Spec.Containers[i]
        IN /\ ~container.Resources.Limits.isNil
           /\ (~IsZero(Cpu(container.Resources.Limits))
               \/ ~IsZero(Memory(container.Resources.Limits)))

\* The nsMap entry of `name` after the loop over the pods.
RECURSIVE CountPods(_, _)
CountPods(nsAnalysis, pods) ==
    IF pods = <<>> THEN nsAnalysis
    ELSE LET pod == Head(pods)
         IN IF pod.Namespace = nsAnalysis.Namespace
            THEN CountPods(
                   [nsAnalysis EXCEPT
                      !.TotalPods = @ + 1,
                      !.PodsWithoutRequests = IF hasRequests(pod) THEN @ ELSE @ + 1,
                      !.CriticalPods = IF hasRequests(pod) THEN @ ELSE Append(@, pod.Name),
                      !.PodsWithoutLimits = IF hasLimits(pod) THEN @ ELSE @ + 1],
                   Tail(pods))
            ELSE CountPods(nsAnalysis, Tail(pods))

NewNamespaceAnalysis(name) ==
    [Namespace |-> name,
     TotalPods |-> 0,
     PodsWithoutRequests |-> 0,
     PodsWithoutLimits |-> 0,
     RiskLevel |-> "",
     CriticalPods |-> <<>>,
     Recommendations |-> <<>>]

requestGapPercent(nsAnalysis) ==
    Times100(FloatDiv(nsAnalysis.PodsWithoutRequests, nsAnalysis.TotalPods))

\* RiskLevel with ">=" for ">".
RiskLevelAtLeast(nsAnalysis) ==
    LET p == requestGapPercent(nsAnalysis)
        AtLeast(k) == FloatGreater(p, k) \/ (p.kind = "finite" /\ p.num = k * p.den)
    IN IF AtLeast(75) THEN "critical"
       ELSE IF AtLeast(50) THEN "high"
       ELSE IF AtLeast(25) THEN "medium"
       ELSE "low"

RiskLevel(nsAnalysis) ==
    IF FloatGreater(requestGapPercent(nsAnalysis), 75) THEN "critical"
    ELSE IF FloatGreater(requestGapPercent(nsAnalysis), 50) THEN "high"
    ELSE IF FloatGreater(requestGapPercent(nsAnalysis), 25) THEN "medium"
    ELSE "low"

\* The entries appended to result: those of nsMap with TotalPods # 0.
NamespaceResults(pods, namespaces) ==
    LET counted == {CountPods(NewNamespaceAnalysis(name), pods) : name \in nsMapKeys(namespaces)}
    IN {[nsAnalysis EXCEPT !.RiskLevel = RiskLevel(nsAnalysis)] :
           nsAnalysis \in {c \in counted : c.TotalPods # 0}}

riskOrder(level) ==
    CASE level = "critical" -> 0
      [] level = "high" -> 1
      [] level = "medium" -> 2
      [] level = "low" -> 3
      [] OTHER -> 0

\* sort.Slice leaves no pair with less(later, earlier).
SortedByRisk(result) ==
    \A i, j \in DOMAIN result :
        i < j => ~(riskOrder(result[j].RiskLevel) < riskOrder(result[i].RiskLevel))

Orderings(S) ==
    {f \in [1..Cardinality(S) -> S] : \A i, j \in 1..Cardinality(S) : i # j => f[i] # f[j]}

\* `for _, nsAnalysis := range nsMap` visits the map in an order Go leaves
\* unspecified (and randomises), and the sort keeps the order of equal
\* entries, so every ordering of the entries that is sorted by risk is a
\* possible return value.
analyzeNamespaces(pods, namespaces) ==
    {result \in Orderings(NamespaceResults(pods, namespaces)) : SortedByRisk(result)}

(***************************************************************************)
(* generateHealthSummary, generateCriticalIssues                           *)
(***************************************************************************)
criticalCount(issues) == Cardinality({i \in DOMAIN issues : issues[i].Priority <= 2})

\* generateHealthSummary with "critical" from ten OOM events on.
generateHealthSummaryFromTen(a) ==
    IF criticalCount(a.CriticalIssues) > 3 \/ Len(a.OOMEvents) >= 10 THEN "critical"
    ELSE IF criticalCount(a.CriticalIssues) > 0 \/ Len(a.OOMEvents) > 0 THEN "degraded"
    ELSE "healthy"

generateHealthSummary(a) ==
    IF criticalCount(a.CriticalIssues) > 3 \/ Len(a.OOMEvents) > 10 THEN "critical"
    ELSE IF criticalCount(a.CriticalIssues) > 0 \/ Len(a.OOMEvents) > 0 THEN "degraded"
    ELSE "healthy"

\* The first three entries of a list ("if i >= 3 { break }").
FirstThree(list) == SubSeq(list, 1, IF Len(list) < 3 THEN Len(list) ELSE 3)

\* The examples are the formatted first three findings; they are kept as
\* the fields that fmt.Sprintf formats.
GapExamples(gaps) ==
    [i \in DOMAIN FirstThree(gaps) |-> <<gaps[i].Namespace, gaps[i].PodName, gaps[i].Container>>]
OOMExamples(oomEvents) ==
    [i \in DOMAIN FirstThree(oomEvents) |->
        <<oomEvents[i].Namespace, oomEvents[i].PodName, oomEvents[i].Timestamp>>]
NodeExamples(nodeIssues) ==
    [i \in DOMAIN FirstThree(nodeIssues) |->
        <<nodeIssues[i].NodeName, nodeIssues[i].Issue,
          Times100(FloatDiv(nodeIssues[i].RequestedCPU[1], nodeIssues[i].AllocatableCPU[1]))>>]

CriticalIssue(priority, title, count, examples) ==
    [Priority |-> priority, Title |-> title, Count |-> count, Examples |-> examples]

ResourceGapIssue(a) ==
    IF Len(a.ResourceGaps) > 0
    THEN <<CriticalIssue(1, "Missing Resource Requests and Limits",
                         Len(a.ResourceGaps), GapExamples(a.ResourceGaps))>>
    ELSE <<>>

OOMIssue(a) ==
    IF Len(a.OOMEvents) > 0
    THEN <<CriticalIssue(2, "OOMKilled Events Detected",
                         Len(a.OOMEvents), OOMExamples(a.OOMEvents))>>
    ELSE <<>>

\* NodePressureIssue guarded by the OOM list (the guard of the block above it).
NodePressureIssueOnOOM(a) ==
    IF Len(a.OOMEvents) > 0
    THEN <<CriticalIssue(3, "High Node Resource Utilization",
                         Len(a.NodeIssues), NodeExamples(a.NodeIssues))>>
    ELSE <<>>

NodePressureIssue(a) ==
    IF Len(a.NodeIssues) > 0
    THEN <<CriticalIssue(3, "High Node Resource Utilization",
                         Len(a.NodeIssues), NodeExamples(a.NodeIssues))>>
    ELSE <<>>

generateCriticalIssues(a) == ResourceGapIssue(a) \o OOMIssue(a) \o NodePressureIssue(a)

(***************************************************************************)
(* analyzeFluxEvents, analyzeNonFluxEvents                                 *)
(***************************************************************************)
\* isFlux without the two tests of the involved object's kind.
isFluxWithoutKind(event) ==
    \/ Contains(ToLower(event.Source.Component), S_flux)
    \/ Contains(ToLower(event.InvolvedObject.APIVersion), S_fluxcd)
    \/ Contains(ToLower(event.InvolvedObject.APIVersion), S_toolkit_fluxcd)

\* isFluxSkipped comparing the kind for equality instead of searching it.
isFluxSkippedExactKind(event) ==
    \/ Contains(ToLower(event.Source.Component), S_flux)
    \/ ToLower(event.InvolvedObject.Kind) = S_kustomization
    \/ ToLower(event.InvolvedObject.Kind) = S_helmrelease
    \/ Contains(ToLower(event.InvolvedObject.APIVersion), S_fluxcd)
    \/ Contains(ToLower(event.InvolvedObject.APIVersion), S_toolkit_fluxcd)

\* isFlux as analyzeFluxEvents computes it.
isFlux(event) ==
    \/ Contains(ToLower(event.Source.Component), S_flux)
    \/ Contains(ToLower(event.InvolvedObject.Kind), S_kustomization)
    \/ Contains(ToLower(event.InvolvedObject.Kind), S_helmrelease)
    \/ Contains(ToLower(event.InvolvedObject.APIVersion), S_fluxcd)
    \/ Contains(ToLower(event.InvolvedObject.APIVersion), S_toolkit_fluxcd)

\* isFlux as analyzeNonFluxEvents computes it ("Skip Flux events").
isFluxSkipped(event) ==
    \/ Contains(ToLower(event.Source.Component), S_flux)
    \/ Contains(ToLower(event.InvolvedObject.Kind), S_kustomization)
    \/ Contains(ToLower(event.InvolvedObject.Kind), S_helmrelease)
    \/ Contains(ToLower(event.InvolvedObject.APIVersion), S_fluxcd)
    \/ Contains(ToLower(event.InvolvedObject.APIVersion), S_toolkit_fluxcd)

EventInfo(event) ==
    [Type |-> event.Type,
     Reason |-> event.Reason,
     Message |-> event.Message,
     Namespace |-> event.Namespace,
     InvolvedObject |-> event.InvolvedObject.Kind \o <<"/">> \o event.InvolvedObject.Name,
     Count |-> event.Count,
     FirstTime |-> event.FirstTimestamp,
     LastTime |-> event.LastTimestamp]

\* The Flux events of `events`, in order, whose last timestamp is after
\* `threshold`, as EventInfo.
RECURSIVE FluxWindow(_, _)
FluxWindow(events, threshold) ==
    IF events = <<>> THEN <<>>
    ELSE (IF isFlux(Head(events)) /\ After(Head(events).LastTimestamp, threshold)
          THEN <<EventInfo(Head(events))>> ELSE <<>>)
         \o FluxWindow(Tail(events), threshold)

NonFluxKept(event) == ~isFluxSkipped(event) /\ event.Type = "Warning"

RECURSIVE NonFluxWindow(_, _)
NonFluxWindow(events, threshold) ==
    IF events = <<>> THEN <<>>
    ELSE (IF NonFluxKept(Head(events)) /\ After(Head(events).LastTimestamp, threshold)
          THEN <<EventInfo(Head(events))>> ELSE <<>>)
         \o NonFluxWindow(Tail(events), threshold)

\* The counter of a type that counts every entry of the list.
CountAny(list, type) == Len(list)

\* Warnings24h++ / Errors24h++ where the entry is appended.
CountType(list, type) == Cardinality({i \in DOMAIN list : list[i].Type = type})

\* "Sort by last time (most recent first)"
SortByLastTime(list) == SortSliceDescending([i \in DOMAIN list |-> <<list[i].LastTime, list[i]>>])

analyzeFluxEvents(events, now) ==
    LET threshold24h == AddHours(now, -24)
        threshold48h == AddHours(now, -48)
        last24 == FluxWindow(events, threshold24h)
        last48 == FluxWindow(events, threshold48h)
    IN [Last24Hours |-> SortByLastTime(last24),
        Last48Hours |-> SortByLastTime(last48),
        Warnings24h |-> CountType(last24, "Warning"),
        Warnings48h |-> CountType(last48, "Warning"),
        Errors24h |-> CountType(last24, "Error"),
        Errors48h |-> CountType(last48, "Error")]

analyzeNonFluxEvents(events, now) ==
    LET threshold24h == AddHours(now, -24)
        threshold48h == AddHours(now, -48)
        last24 == NonFluxWindow(events, threshold24h)
        last48 == NonFluxWindow(events, threshold48h)
    IN [Last24Hours |-> SortByLastTime(last24),
        Last48Hours |-> SortByLastTime(last48),
        Warnings24h |-> Len(last24),
        Warnings48h |-> Len(last48)]

(***************************************************************************)
(* analyzeRabbitMQ                                                         *)
(***************************************************************************)
\* The test of the pod name without strings.ToLower.
IsRabbitMQPodCaseSensitive(pod) ==
    \/ Contains(pod.Name, S_rabbitmq)
    \/ Contains(pod.Name, S_rabbit)

IsRabbitMQPod(pod) ==
    \/ Contains(pod.Name, S_rabbitmq)
    \/ Contains(ToLower(pod.Name), S_rabbit)

\* fmt.Sprintf("%s/%s", pod.Namespace, pod.Name)
NamespacedName(namespace, name) == namespace \o <<"/">> \o name

\* "Check resource limits"
HasMemoryLimit(container) ==
    /\ ~container.Resources.Limits.isNil
    /\ ~IsZero(Memory(container.Resources.Limits))

RECURSIVE RabbitMQPodNames(_)
RabbitMQPodNames(pods) ==
    IF pods = <<>> THEN <<>>
    ELSE (IF IsRabbitMQPod(Head(pods))
          THEN <<NamespacedName(Head(pods).Namespace, Head(pods).Name)>> ELSE <<>>)
         \o RabbitMQPodNames(Tail(pods))

analyzeRabbitMQ(pods) ==
    LET matched == {i \in DOMAIN pods : IsRabbitMQPod(pods[i])}
    IN [RabbitMQPods |-> RabbitMQPodNames(pods),
        HasPriorityClass |-> \E i \in matched : pods[i].Spec.PriorityClassName # "",
        HasResourceLimits |->
            \E i \in matched : \E c \in DOMAIN pods[i].Spec.Containers :
                HasMemoryLimit(pods[i].Spec.Containers[c]),
        Recommendations |-> <<>>]

(***************************************************************************)
(* analyzeJobs                                                             *)
(***************************************************************************)
\* "Check if short-lived (completed in < 2 minutes)"; times are in hours.
IsShortLived(pod) ==
    /\ pod.Status.Phase = "Succeeded"
    /\ ~pod.Status.StartTime.isNil
    /\ \E i \in DOMAIN pod.Status.ContainerStatuses :
          LET cs == pod.Status.ContainerStatuses[i]
          IN /\ ~cs.State.Terminated.isNil
             /\ (cs.State.Terminated.value.FinishedAt - pod.Status.StartTime.value) * 60 < 2

JobOwners(pod) == {i \in DOMAIN pod.OwnerReferences : pod.OwnerReferences[i].Kind = "Job"}

RECURSIVE SumOver(_, _)
SumOver(f, S) ==
    IF S = {} THEN 0
    ELSE LET x == CHOOSE x \in S : TRUE IN f[x] + SumOver(f, S \ {x})

analyzeJobs(pods) ==
    [TotalJobs |-> SumOver([i \in DOMAIN pods |-> Cardinality(JobOwners(pods[i]))], DOMAIN pods),
     ShortJobs |-> SumOver([i \in DOMAIN pods |->
                              IF IsShortLived(pods[i]) THEN Cardinality(JobOwners(pods[i])) ELSE 0],
                           DOMAIN pods)]

(***************************************************************************)
(* analyzePodRestarts                                                      *)
(***************************************************************************)
\* time.Time.IsZero
IsZeroTime(t) == t = 0

\* The reason of a termination state, "Unknown" when it is empty.
ReasonOf(terminated) == IF terminated.Reason = "" THEN "Unknown" ELSE terminated.Reason

\* LastRestart looking at the current state before the last termination state.
LastRestartCurrentFirst(pod, containerStatus) ==
    IF ~containerStatus.State.Terminated.isNil
    THEN [time |-> containerStatus.State.Terminated.value.FinishedAt,
          reason |-> ReasonOf(containerStatus.State.Terminated.value)]
    ELSE IF ~containerStatus.LastTerminationState.Terminated.isNil
    THEN [time |-> containerStatus.LastTerminationState.Terminated.value.FinishedAt,
          reason |-> ReasonOf(containerStatus.LastTerminationState.Terminated.value)]
    ELSE [time |-> IF ~pod.Status.StartTime.isNil THEN pod.Status.StartTime.value ELSE 0,
          reason |-> "Unknown"]

\* "Get last restart time and reason"
LastRestart(pod, containerStatus) ==
    IF ~containerStatus.LastTerminationState.Terminated.isNil
    THEN [time |-> containerStatus.LastTerminationState.Terminated.value.FinishedAt,
          reason |-> ReasonOf(containerStatus.LastTerminationState.Terminated.value)]
    ELSE IF ~containerStatus.State.Terminated.isNil
    THEN [time |-> containerStatus.State.Terminated.value.FinishedAt,
          reason |-> ReasonOf(containerStatus.State.Terminated.value)]
    ELSE [time |-> IF ~pod.Status.StartTime.isNil THEN pod.Status.StartTime.value ELSE 0,
          reason |-> "Unknown"]

PodRestart(pod, containerStatus) ==
    [Namespace |-> pod.Namespace,
     PodName |-> pod.Name,
     ContainerName |-> containerStatus.Name,
     RestartCount |-> containerStatus.RestartCount,
     LastRestartTime |-> LastRestart(pod, containerStatus).time,
     Reason |-> LastRestart(pod, containerStatus).reason]

\* "Add to 24h list if within last 24 hours", "Add to 7d list if within last
\* 7 days"
RestartWithin(restart, threshold) ==
    /\ ~IsZeroTime(restart.LastRestartTime)
    /\ After(restart.LastRestartTime, threshold)

\* The restarts of the container statuses of one pod that lie after
\* `threshold`, in the order of the statuses.
RECURSIVE StatusRestarts(_, _, _)
StatusRestarts(pod, statuses, threshold) ==
    IF statuses = <<>> THEN <<>>
    ELSE (IF /\ Head(statuses).RestartCount > 0
             /\ RestartWithin(PodRestart(pod, Head(statuses)), threshold)
          THEN <<PodRestart(pod, Head(statuses))>> ELSE <<>>)
         \o StatusRestarts(pod, Tail(statuses), threshold)

RECURSIVE RestartsWithin(_, _)
RestartsWithin(pods, threshold) ==
    IF pods = <<>> THEN <<>>
    ELSE StatusRestarts(Head(pods), Head(pods).Status.ContainerStatuses, threshold)
         \o RestartsWithin(Tail(pods), threshold)

\* "Sort by restart count (highest first)"
SortByRestartCount(list) ==
    SortSliceDescending([i \in DOMAIN list |-> <<list[i].RestartCount, list[i]>>])

\* The number of pod names of the list, whatever the namespace.
UniquePodNames(list) == Cardinality({list[i].PodName : i \in DOMAIN list})

\* "Count unique pods": the keys of the map uniquePods.
UniquePods(list) ==
    Cardinality({NamespacedName(list[i].Namespace, list[i].PodName) : i \in DOMAIN list})

\* analyzePodRestarts with the two thresholds taken for one another.
analyzePodRestartsSwapped(pods, now) ==
    LET threshold24h == AddHours(now, -7 * 24)
        threshold7d == AddHours(now, -24)
        last24 == SortByRestartCount(RestartsWithin(pods, threshold24h))
        last7d == SortByRestartCount(RestartsWithin(pods, threshold7d))
    IN [Last24Hours |-> last24,
        Last7Days |-> last7d,
        TotalPods24h |-> UniquePods(last24),
        TotalPods7d |-> UniquePods(last7d)]

analyzePodRestarts(pods, now) ==
    LET threshold24h == AddHours(now, -24)
        threshold7d == AddHours(now, -7 * 24)
        last24 == SortByRestartCount(RestartsWithin(pods, threshold24h))
        last7d == SortByRestartCount(RestartsWithin(pods, threshold7d))
    IN [Last24Hours |-> last24,
        Last7Days |-> last7d,
        TotalPods24h |-> UniquePods(last24),
        TotalPods7d |-> UniquePods(last7d)]

(***************************************************************************)
(* analyzeVeleroBackups                                                    *)
(*                                                                         *)
(* An unstructured object is a map from field names to values; a value is  *)
(* tagged with its dynamic type ("map", "string", "int64").  The times of  *)
(* this detector are in seconds since the zero time.Time, the unit of the  *)
(* timestamps it parses.                                                   *)
(***************************************************************************)
MapValue(m) == [type |-> "map", fields |-> m]
StringValue(s) == [type |-> "string", chars |-> s]
Int64Value(n) == [type |-> "int64", number |-> n]

\* unstructured.NestedMap: found and no error.
NestedMapFound(object, field) == field \in DOMAIN object /\ object[field].type = "map"

\* unstructured.NestedString, its first result: "" when the field is missing
\* or is not a string.
NestedString(object, field) ==
    IF field \in DOMAIN object /\ object[field].type = "string"
    THEN object[field].chars ELSE S_empty

\* unstructured.NestedInt64, its first result.
NestedInt64(object, field) ==
    IF field \in DOMAIN object /\ object[field].type = "int64"
    THEN object[field].number ELSE 0

Digits == <<"0", "1", "2", "3", "4", "5", "6", "7", "8", "9">>

\* isDigit(s, i) of package time, with i counted from 1.
IsDigit(s, i) == i \in DOMAIN s /\ \E d \in DOMAIN Digits : Digits[d] = s[i]

DigitAt(s, i) == (CHOOSE d \in DOMAIN Digits : Digits[d] = s[i]) - 1

\* The number written by the two digits at i and i + 1.
TwoDigits(s, i) == DigitAt(s, i) * 10 + DigitAt(s, i + 1)

IsLeap(year) == year % 4 = 0 /\ (year % 100 # 0 \/ year % 400 = 0)

\* daysIn(month, year) of package time.
DaysIn(month, year) ==
    IF month = 2 /\ IsLeap(year) THEN 29
    ELSE <<31, 28, 31, 30, 31, 30, 31, 31, 30, 31, 30, 31>>[month]

RECURSIVE DaysBeforeMonth(_, _)
DaysBeforeMonth(month, year) ==
    IF month = 1 THEN 0 ELSE DaysBeforeMonth(month - 1, year) + DaysIn(month - 1, year)

\* The days from 0001-01-01 to the given date of the Gregorian calendar.
DaysSinceZero(year, month, day) ==
    LET y == year - 1
    IN 365 * y + (y \div 4) - (y \div 100) + (y \div 400)
       + DaysBeforeMonth(month, year) + day - 1

\* The number of digits of s from position i on.
RECURSIVE DigitRun(_, _)
DigitRun(s, i) == IF IsDigit(s, i) THEN 1 + DigitRun(s, i + 1) ELSE 0

\* The length of the fraction of a second at position f of s, 0 without one.
FractionLen(s, f) ==
    IF f \in DOMAIN s /\ s[f] \in {".", ","} /\ IsDigit(s, f + 1)
    THEN 1 + DigitRun(s, f + 1) ELSE 0

\* Date and time of day are digits and separators; the minutes are at m + 1.
DateTimeWellFormed(s, m) ==
    /\ \A i \in {1, 2, 3, 4, 6, 7, 9, 10, 12, m + 1, m + 2, m + 4, m + 5} : IsDigit(s, i)
    /\ s[5] = "-" /\ s[8] = "-" /\ s[11] = "T" /\ s[m] = ":" /\ s[m + 3] = ":"

\* The zone at position z is "Z" or a signed hh:mm, and nothing follows it.
ZoneWellFormed(s, z) ==
    IF z \in DOMAIN s /\ s[z] = "Z" THEN Len(s) = z
    ELSE /\ Len(s) = z + 5
         /\ s[z] \in {"+", "-"}
         /\ s[z + 3] = ":"
         /\ \A i \in {z + 1, z + 2, z + 4, z + 5} : IsDigit(s, i)
         /\ TwoDigits(s, z + 1) <= 24
         /\ TwoDigits(s, z + 4) <= 60

\* The seconds the well-formed zone at position z is ahead of UTC.
ZoneOffset(s, z) ==
    IF s[z] = "Z" THEN 0
    ELSE (IF s[z] = "-" THEN -1 ELSE 1)
         * (TwoDigits(s, z + 1) * 60 + TwoDigits(s, z + 4)) * 60

\* The time of a well-formed s, or the error of a field out of range.
TimeInZone(s, m, zoneOffset) ==
    LET year == DigitAt(s, 1) * 1000 + DigitAt(s, 2) * 100 + TwoDigits(s, 3)
        month == TwoDigits(s, 6)
        day == TwoDigits(s, 9)
        hour == IF m = 14 THEN TwoDigits(s, 12) ELSE DigitAt(s, 12)
        min == TwoDigits(s, m + 1)
        sec == TwoDigits(s, m + 4)
    IN IF /\ month \in 1..12
          /\ day \in 1..DaysIn(month, year)
          /\ hour < 24 /\ min < 60 /\ sec < 60
       THEN [err |-> FALSE,
             time |-> ((DaysSinceZero(year, month, day) * 24 + hour) * 60 + min) * 60 + sec
                      - zoneOffset]
       ELSE [err |-> TRUE, time |-> 0]

ParseWithZoneAt(s, m, z) ==
    IF DateTimeWellFormed(s, m) /\ ZoneWellFormed(s, z)
    THEN TimeInZone(s, m, ZoneOffset(s, z))
    ELSE [err |-> TRUE, time |-> 0]

\* time.Parse(time.RFC3339, s): the layout "2006-01-02T15:04:05Z07:00".
\* The year has four digits; month, day, minute and second two; the hour one
\* or two; a fraction of a second after the seconds is read and, the times
\* of the model being whole seconds, dropped; the zone is "Z" or a signed
\* hh:mm; nothing may follow.  On an error the time is the zero time.Time.
ParseRFC3339(s) ==
    LET m == 12 + (IF IsDigit(s, 12) /\ IsDigit(s, 13) THEN 2 ELSE 1)
    IN ParseWithZoneAt(s, m, m + 6 + FractionLen(s, m + 6))

\* The clock's time.Time in seconds.
InSeconds(t) == t * 3600

\* The record of a backup with a status and the start time parsed from it.
VeleroBackup(backup, startTime) ==
    LET status == backup.Object.status.fields
        completion == ParseRFC3339(NestedString(status, "completionTimestamp"))
    IN [Name |-> backup.Name,
        Namespace |-> backup.Namespace,
        Status |-> NestedString(status, "phase"),
        StartTime |-> startTime,
        CompletionTime |-> completion.time,
        Duration |-> IF ~IsZeroTime(completion.time) THEN completion.time - startTime ELSE 0,
        Errors |-> NestedInt64(status, "errors"),
        Warnings |-> NestedInt64(status, "warnings")]

\* IsFailedPhase without the phase "PartiallyFailed".
IsFailedPhaseOnlyFailed(phase) == phase = S_Failed

IsFailedPhase(phase) == phase = S_Failed \/ phase = S_PartiallyFailed

\* What one round of the loop appends for a backup whose start time was
\* parsed: nothing on a parse error ("Skip if can't parse") or at or before
\* the threshold.
KeptParsed(backup, parsed, threshold) ==
    IF parsed.err \/ ~After(parsed.time, threshold) THEN <<>>
    ELSE <<VeleroBackup(backup, parsed.time)>>

\* What one round of the loop appends: nothing without a status map.
Kept(backup, threshold) ==
    IF ~NestedMapFound(backup.Object, "status") THEN <<>>
    ELSE KeptParsed(backup,
                    ParseRFC3339(NestedString(backup.Object.status.fields, "startTimestamp")),
                    threshold)

\* The loop ends at the first backup without a status map.
RECURSIVE BackupsAfterUntilMalformed(_, _)
BackupsAfterUntilMalformed(backups, threshold) ==
    IF backups = <<>> \/ ~NestedMapFound(Head(backups).Object, "status") THEN <<>>
    ELSE Kept(Head(backups), threshold)
         \o BackupsAfterUntilMalformed(Tail(backups), threshold)

\* The backups the loop keeps whose start time is after `threshold`, in order.
RECURSIVE BackupsAfter(_, _)
BackupsAfter(backups, threshold) ==
    IF backups = <<>> THEN <<>>
    ELSE Kept(Head(backups), threshold) \o BackupsAfter(Tail(backups), threshold)

CountFailed(list) == Cardinality({i \in DOMAIN list : IsFailedPhase(list[i].Status)})

\* "Sort by start time (most recent first)"
SortByStartTime(list) ==
    SortSliceDescending([i \in DOMAIN list |-> <<list[i].StartTime, list[i]>>])

\* The two windows of the kept backups and their counters.
BackupWindows(kept, threshold24h, threshold48h) ==
    LET last24 == SelectSeq(kept, LAMBDA b : After(b.StartTime, threshold24h))
        last48 == SelectSeq(kept, LAMBDA b : After(b.StartTime, threshold48h))
    IN [Last24Hours |-> SortByStartTime(last24),
        Last48Hours |-> SortByStartTime(last48),
        TotalBackups24h |-> Len(last24),
        TotalBackups48h |-> Len(last48),
        FailedBackups24h |-> CountFailed(last24),
        FailedBackups48h |-> CountFailed(last48)]

\* "Only include backups from last 48 hours", then the windows.
analyzeVeleroBackups(backups, now) ==
    BackupWindows(BackupsAfter(backups, InSeconds(AddHours(now, -48))),
                  InSeconds(AddHours(now, -24)),
                  InSeconds(AddHours(now, -48)))

(***************************************************************************)
(* CollectClusterData.  A listing returns an error or its items; the       *)
(* listing of the backups returns an error or a list, which may be nil.    *)
(***************************************************************************)
ListResponse(err, items) == [err |-> err, items |-> items]

\* A required listing failed, or any listing did.
AnyListingFailed(a) ==
    \/ a.pods.err \/ a.nodes.err \/ a.events.err \/ a.namespaces.err
    \/ a.metrics.err \/ a.backups.err

\* One of the four `return nil, fmt.Errorf("error listing ...")`.
RequiredListingFailed(a) ==
    a.pods.err \/ a.nodes.err \/ a.events.err \/ a.namespaces.err

\* The usage of the containers of one item of the metrics list, by name.
ContainerMetrics(containers) ==
    {<<containers[c].name,
       [CPUUsage |-> containers[c].usage.value.cpu,
        MemoryUsage |-> containers[c].usage.value.memory]>> :
        c \in {i \in DOMAIN containers : ~containers[i].usage.isNil}}

\* collectPodMetrics: nothing when the listing fails, else an entry
\* "namespace/name" for every item with containers.
collectPodMetrics(metrics) ==
    IF metrics.err THEN {}
    ELSE {<<<<metrics.items[i].namespace, metrics.items[i].name>>,
            ContainerMetrics(metrics.items[i].containers.value)>> :
             i \in {j \in DOMAIN metrics.items : ~metrics.items[j].containers.isNil}}

\* "Get Velero backups if available": errors are ignored.
CollectedBackups(backups) ==
    IF ~backups.err /\ ~backups.items.isNil THEN backups.items.value ELSE <<>>

\* What CollectClusterData returns: (nil, err) or (data, nil).
CollectedFrom(a) ==
    IF RequiredListingFailed(a) THEN [err |-> TRUE, data |-> Nil]
    ELSE [err |-> FALSE,
          data |-> [Pods |-> a.pods.items,
                    Nodes |-> a.nodes.items,
                    Events |-> a.events.items,
                    Namespaces |-> a.namespaces.items,
                    VeleroBackups |-> CollectedBackups(a.backups),
                    PodMetrics |-> collectPodMetrics(a.metrics),
                    AISuggestions |-> [isNil |-> TRUE, items |-> {}]]]

\* main calls CollectClusterData and ends with log.Fatalf on its error.
CollectClusterData ==
    /\ pc = "start"
    /\ data' = CollectedFrom(api).data
    /\ pc' = IF CollectedFrom(api).err THEN "collect-failed" ELSE "collected"
    /\ UNCHANGED <<done, api, clock, clockEnd, nowRead, analysis, ai, report>>

(***************************************************************************)
(* AnalyzeCluster                                                          *)
(***************************************************************************)
\* &Analysis{}
NewAnalysis ==
    [ClusterHealth |-> "",
     CriticalIssues |-> <<>>,
     ResourceGaps |-> <<>>,
     NodeIssues |-> <<>>,
     OOMEvents |-> <<>>,
     NamespaceAnalysis |-> <<>>,
     RabbitMQFindings |-> analyzeRabbitMQ(<<>>),
     ShortLivedJobs |-> analyzeJobs(<<>>),
     PodRestarts |-> analyzePodRestarts(<<>>, 0),
     FluxEvents |-> analyzeFluxEvents(<<>>, 0),
     NonFluxEvents |-> analyzeNonFluxEvents(<<>>, 0),
     VeleroBackups |-> analyzeVeleroBackups(<<>>, 0),
     AIInsights |-> Nil]

\* Detected with the OOM detector run only where the resource gap detector
\* found something.
DetectedChained(d, nsResult, nowFlux, nowNonFlux) ==
    [NewAnalysis EXCEPT
        !.ResourceGaps = analyzeResourceGaps(d.Pods),
        !.NodeIssues = analyzeNodes(d.Nodes, d.Pods),
        !.OOMEvents = IF analyzeResourceGaps(d.Pods) = <<>> THEN <<>>
                      ELSE analyzeOOMEvents(d.Events),
        !.NamespaceAnalysis = nsResult,
        !.RabbitMQFindings = analyzeRabbitMQ(d.Pods),
        !.ShortLivedJobs = analyzeJobs(d.Pods),
        !.FluxEvents = analyzeFluxEvents(d.Events, nowFlux),
        !.NonFluxEvents = analyzeNonFluxEvents(d.Events, nowNonFlux)]

\* The detectors' results, in the order AnalyzeCluster assigns them.
\* nsResult is the list analyzeNamespaces returned; nowFlux and nowNonFlux
\* are the time.Now() of analyzeFluxEvents and of analyzeNonFluxEvents.
Detected(d, nsResult, nowFlux, nowNonFlux) ==
    [NewAnalysis EXCEPT
        !.ResourceGaps = analyzeResourceGaps(d.Pods),
        !.NodeIssues = analyzeNodes(d.Nodes, d.Pods),
        !.OOMEvents = analyzeOOMEvents(d.Events),
        !.NamespaceAnalysis = nsResult,
        !.RabbitMQFindings = analyzeRabbitMQ(d.Pods),
        !.ShortLivedJobs = analyzeJobs(d.Pods),
        !.FluxEvents = analyzeFluxEvents(d.Events, nowFlux),
        !.NonFluxEvents = analyzeNonFluxEvents(d.Events, nowNonFlux)]

\* The two detectors that read the clock before and after the event
\* detectors: nowRestarts and nowVelero are the time.Now() of
\* analyzePodRestarts and of analyzeVeleroBackups.
Timed(a, d, nowRestarts, nowVelero) ==
    [a EXCEPT
        !.PodRestarts = analyzePodRestarts(d.Pods, nowRestarts),
        !.VeleroBackups = analyzeVeleroBackups(d.VeleroBackups, nowVelero)]

\* "Generate cluster health summary", then "Generate critical issues".
WithHealth(a) == [a EXCEPT !.ClusterHealth = generateHealthSummary(a)]
WithCriticalIssues(a) == [a EXCEPT !.CriticalIssues = generateCriticalIssues(a)]

Synthesized(a) == WithCriticalIssues(WithHealth(a))

\* The four time.Now() of one call, in the order of the detectors that read
\* them (analyzePodRestarts, analyzeFluxEvents, analyzeNonFluxEvents,
\* analyzeVeleroBackups), while the clock goes from `from` to at most `to`.
ClockReads(from, to) ==
    {r \in [{"Restarts", "Flux", "NonFlux", "Velero"} -> from..to] :
        r.Restarts <= r.Flux /\ r.Flux <= r.NonFlux /\ r.NonFlux <= r.Velero}

\* What one call of AnalyzeCluster on d can return, with the clock it read.
Runs(d, from, to) ==
    {[analysis |-> Synthesized(Timed(Detected(d, nsResult, r.Flux, r.NonFlux),
                                     d, r.Restarts, r.Velero)),
      nowRead |-> r] :
        nsResult \in analyzeNamespaces(d.Pods, d.Namespaces),
        r \in ClockReads(from, to)}

\* The detectors, by the field of the Analysis they return.
Detectors ==
    {"ResourceGaps", "NodeIssues", "OOMEvents", "NamespaceAnalysis", "RabbitMQFindings",
     "ShortLivedJobs", "PodRestarts", "FluxEvents", "NonFluxEvents", "VeleroBackups"}

\* What the detector can return on the snapshot d when it reads the clock
\* at `now`.
DetectorOutputs(name, d, now) ==
    CASE name = "ResourceGaps" -> {analyzeResourceGaps(d.Pods)}
      [] name = "NodeIssues" -> {analyzeNodes(d.Nodes, d.Pods)}
      [] name = "OOMEvents" -> {analyzeOOMEvents(d.Events)}
      [] name = "NamespaceAnalysis" -> analyzeNamespaces(d.Pods, d.Namespaces)
      [] name = "RabbitMQFindings" -> {analyzeRabbitMQ(d.Pods)}
      [] name = "ShortLivedJobs" -> {analyzeJobs(d.Pods)}
      [] name = "PodRestarts" -> {analyzePodRestarts(d.Pods, now)}
      [] name = "FluxEvents" -> {analyzeFluxEvents(d.Events, now)}
      [] name = "NonFluxEvents" -> {analyzeNonFluxEvents(d.Events, now)}
      [] name = "VeleroBackups" -> {analyzeVeleroBackups(d.VeleroBackups, now)}

\* The detector calls of AnalyzeCluster as independent workers: a detector
\* that has not returned yet returns, in any order.
RunDetector ==
    /\ pc = "detecting"
    /\ \E name \in Detectors \ done, now \in clock..clockEnd :
          /\ \E output \in DetectorOutputs(name, data, now) :
                analysis' = [analysis EXCEPT ![name] = output]
          /\ done' = done \cup {name}
          /\ clock' = now
    /\ UNCHANGED <<api, data, clockEnd, nowRead, ai, report, pc>>

\* The two synthesizer steps, once every detector has returned.
Synthesize ==
    /\ pc = "detecting"
    /\ done = Detectors
    /\ analysis' = Synthesized(analysis)
    /\ pc' = "analyzed"
    /\ UNCHANGED <<done, api, data, clock, clockEnd, nowRead, ai, report>>

AnalyzeCluster ==
    /\ pc = "collected"
    /\ \E run \in Runs(data, clock, clockEnd) :
          /\ analysis' = run.analysis
          /\ nowRead' = run.nowRead
          /\ clock' = run.nowRead.Velero
    /\ done' = Detectors
    /\ pc' = "analyzed"
    /\ UNCHANGED <<api, data, clockEnd, ai, report>>

(***************************************************************************)
(* func main, after AnalyzeCluster has returned: the AI steps, then the    *)
(* report.  ai.client is the *AIClient ("nil" or "ready"), ai.pending the  *)
(* namespaces the loop over namespacesWithMissingResources has still to    *)
(* visit, ai.warnings the warnings logged for failed AI calls.             *)
(***************************************************************************)
\* _, ok := resourceList[key]
HasKey(rl, key) == \E item \in rl.items : item[1] = key

\* hasMissingResources of one container
HasMissingResources(container) ==
    LET requests == container.Resources.Requests
        limits == container.Resources.Limits
    IN \/ requests.isNil
       \/ limits.isNil
       \/ /\ ~limits.isNil
          /\ ~requests.isNil
          /\ \/ ~HasKey(requests, "cpu")
             \/ ~HasKey(requests, "memory")
             \/ ~HasKey(limits, "cpu")
             \/ ~HasKey(limits, "memory")

\* The keys of namespacesWithMissingResources.
NamespacesWithMissingResources(pods) ==
    {pods[i].Namespace : i \in {j \in DOMAIN pods :
        /\ pods[j].Status.Phase = "Running"
        /\ \E c \in DOMAIN pods[j].Spec.Containers :
              HasMissingResources(pods[j].Spec.Containers[c])}}

\* A field of PodResourceInfo: "Not Set", or the quantity.
NotSet == [isSet |-> FALSE, quantity |-> 0]
QuantityOf(rl, key) ==
    IF ~rl.isNil /\ HasKey(rl, key)
    THEN [isSet |-> TRUE, quantity |-> Lookup(rl, key)]
    ELSE NotSet

\* The usage of the container in podMetrics, "N/A" where it has none.
CurrentUsage(podMetrics, pod, container) ==
    LET found == {m \in podMetrics : m[1] = <<pod.Namespace, pod.Name>>}
        usage == {u \in UNION {m[2] : m \in found} : u[1] = container.Name}
    IN IF usage = {} THEN [CPUUsage |-> "", MemoryUsage |-> ""]
       ELSE (CHOOSE u \in usage : TRUE)[2]

OrNotAvailable(usage) == IF usage = "" THEN "N/A" ELSE usage

PodResourceInfo(pod, container, usage) ==
    [Namespace |-> pod.Namespace,
     PodName |-> pod.Name,
     ContainerName |-> container.Name,
     Status |-> pod.Status.Phase,
     CPURequest |-> QuantityOf(container.Resources.Requests, "cpu"),
     MemoryRequest |-> QuantityOf(container.Resources.Requests, "memory"),
     CPULimit |-> QuantityOf(container.Resources.Limits, "cpu"),
     MemoryLimit |-> QuantityOf(container.Resources.Limits, "memory"),
     CurrentCPU |-> OrNotAvailable(usage.CPUUsage),
     CurrentMemory |-> OrNotAvailable(usage.MemoryUsage)]

RECURSIVE collectPodResourceInfoForNamespace(_, _, _)
collectPodResourceInfoForNamespace(pods, podMetrics, namespace) ==
    IF pods = <<>> THEN <<>>
    ELSE LET pod == Head(pods)
         IN (IF pod.Namespace # namespace \/ pod.Status.Phase # "Running"
             THEN <<>>
             ELSE [c \in DOMAIN pod.Spec.Containers |->
                      PodResourceInfo(pod, pod.Spec.Containers[c],
                          CurrentUsage(podMetrics, pod, pod.Spec.Containers[c]))])
            \o collectPodResourceInfoForNamespace(Tail(pods), podMetrics, namespace)

\* What CreateChatCompletion returns: an error, or a response with its
\* choices.  The content of a choice is a text.
ChatCompletion(err, choices) == [err |-> err, Choices |-> choices]

parseAIResponse(response) ==
    [Summary |-> response,
     EnhancedRecommendations |-> <<"AI analysis provided in summary section">>,
     RiskAssessment |-> "See AI summary for detailed risk assessment",
     AutomationSuggestions |-> <<"Implement ResourceQuota policies",
                                 "Set up LimitRange defaults for namespaces",
                                 "Configure PodDisruptionBudgets for critical workloads">>]

\* AIClient.AnalyzeCluster: the insights, or an error.
AIClientAnalyzeCluster(resp) ==
    IF resp.err \/ Len(resp.Choices) = 0
    THEN [err |-> TRUE, insights |-> Nil]
    ELSE [err |-> FALSE, insights |-> PointerTo(parseAIResponse(resp.Choices[1]))]

\* A Go string of a response is the sequence of its pieces: a word, or one
\* of the characters that the parser looks at (" ", "|", "/" and "\n").
RECURSIVE TrimLeft(_)
TrimLeft(s) == IF s # <<>> /\ Head(s) \in {" ", "\n"} THEN TrimLeft(Tail(s)) ELSE s

RECURSIVE TrimRight(_)
TrimRight(s) ==
    IF s # <<>> /\ s[Len(s)] \in {" ", "\n"} THEN TrimRight(SubSeq(s, 1, Len(s) - 1)) ELSE s

\* strings.TrimSpace
TrimSpace(s) == TrimRight(TrimLeft(s))

\* strings.Split(s, sep) for a separator of one character.
RECURSIVE Split(_, _)
Split(s, sep) ==
    IF \A i \in DOMAIN s : s[i] # sep THEN <<s>>
    ELSE LET first == CHOOSE i \in DOMAIN s :
                          s[i] = sep /\ \A j \in 1..i - 1 : s[j] # sep
         IN <<SubSeq(s, 1, first - 1)>> \o Split(SubSeq(s, first + 1, Len(s)), sep)

\* a + "/" + b
SuggestionKey(a, b) == a \o <<"/">> \o b

ResourceSuggestion(parts) ==
    [PodName |-> TrimSpace(parts[1]), ContainerName |-> TrimSpace(parts[2]),
     CPURequest |-> TrimSpace(parts[3]), CPULimit |-> TrimSpace(parts[4]),
     MemoryRequest |-> TrimSpace(parts[5]), MemoryLimit |-> TrimSpace(parts[6])]

\* strings.Contains(line, "|CONTAINER_NAME|")
IsHeaderLine(line) == Contains(line, <<"|", "CONTAINER_NAME", "|">>)

\* The lines of the response that are parsed, trimmed and split at "|".
SuggestionLines(response) ==
    LET lines == Split(response, "\n")
        trimmed == [i \in DOMAIN lines |-> TrimSpace(lines[i])]
        kept == SelectSeq(trimmed, LAMBDA line : line # <<>> /\ ~IsHeaderLine(line))
        parts == [i \in DOMAIN kept |-> Split(kept[i], "|")]
    IN SelectSeq(parts, LAMBDA p : Len(p) >= 6)

\* suggestions[key] = ResourceSuggestion{...} for each line in turn: the map
\* holds for each key the suggestion of the last line with that key.
StoredSuggestions(used) ==
    {<<SuggestionKey(used[i][1], used[i][2]), ResourceSuggestion(used[i])>> :
        i \in {j \in DOMAIN used :
                 \A k \in DOMAIN used :
                    SuggestionKey(used[k][1], used[k][2]) = SuggestionKey(used[j][1], used[j][2])
                        => k <= j}}

\* The map from the key to the suggestion, as the set of its entries.
parseResourceSuggestions(response) ==
    [isNil |-> FALSE, items |-> StoredSuggestions(SuggestionLines(response))]

IsMissingResourcePod(info, namespace) ==
    /\ info.Namespace = namespace
    /\ \/ ~info.CPURequest.isSet \/ ~info.CPULimit.isSet
       \/ ~info.MemoryRequest.isSet \/ ~info.MemoryLimit.isSet

\* AIClient.SuggestResourceLimits: the suggestions (nil without a call when
\* no pod of the namespace misses a resource), or an error.
SuggestResourceLimits(pods, namespace, resp) ==
    IF SelectSeq(pods, LAMBDA info : IsMissingResourcePod(info, namespace)) = <<>>
    THEN [err |-> FALSE, suggestions |-> [isNil |-> TRUE, items |-> {}]]
    ELSE IF resp.err \/ Len(resp.Choices) = 0
    THEN [err |-> TRUE, suggestions |-> [isNil |-> TRUE, items |-> {}]]
    ELSE [err |-> FALSE, suggestions |-> parseResourceSuggestions(resp.Choices[1])]

Warning(call, namespace) == [call |-> call, namespace |-> namespace]

\* if err != nil { log.Printf(...) } else { analysis.AIInsights = aiInsights }
WithInsights(a, result) ==
    IF result.err THEN a ELSE [a EXCEPT !.AIInsights = result.insights]

\* data.AISuggestions[ns] = suggestions, whatever the call returned.
WithSuggestionsAlways(d, ns, result) ==
    [d EXCEPT !.AISuggestions.items =
        {entry \in @ : entry[1] # ns} \cup {<<ns, result.suggestions>>}]

\* if err != nil { log.Printf(...) } else if len(suggestions) > 0 {
\*     data.AISuggestions[ns] = suggestions }
WithSuggestions(d, ns, result) ==
    IF result.err THEN d
    ELSE IF Cardinality(result.suggestions.items) > 0
    THEN [d EXCEPT !.AISuggestions.items =
             {entry \in @ : entry[1] # ns} \cup {<<ns, result.suggestions>>}]
    ELSE d

(***************************************************************************)
(* generateAppendix, section B: the table of the running containers and    *)
(* the summary below it.                                                   *)
(***************************************************************************)
\* The characters of the names of the samples, in the order of their bytes.
ByteOrder == <<"-">> \o LowerCase
ByteRank(c) == CHOOSE i \in DOMAIN ByteOrder : ByteOrder[i] = c

\* a < b for two strings
StringLess(a, b) ==
    \E i \in 1..Len(b) :
        /\ i <= Len(a) + 1
        /\ \A j \in 1..i - 1 : a[j] = b[j]
        /\ i > Len(a) \/ ByteRank(a[i]) < ByteRank(b[i])

\* The names of the containers of the samples, in string order.
ContainerNameOrder == <<"app", "sidecar">>
ContainerNameLess(a, b) ==
    \E i, j \in DOMAIN ContainerNameOrder :
        ContainerNameOrder[i] = a /\ ContainerNameOrder[j] = b /\ i < j

\* The less function of the sort: by namespace, then pod name, then
\* container name.
PodInfoLess(x, y) ==
    IF x.Namespace # y.Namespace THEN StringLess(x.Namespace, y.Namespace)
    ELSE IF x.PodName # y.PodName THEN StringLess(x.PodName, y.PodName)
    ELSE ContainerNameLess(x.ContainerName, y.ContainerName)

\* sort.Slice(podInfos, less): the entry at place j moves behind the entries
\* that are less and behind the earlier entries that are not greater.
PlaceSorted(infos, j) ==
    1 + Cardinality({k \in DOMAIN infos :
                        \/ PodInfoLess(infos[k], infos[j])
                        \/ k < j /\ ~PodInfoLess(infos[j], infos[k])})

SortPodInfos(infos) ==
    [i \in DOMAIN infos |-> infos[CHOOSE j \in DOMAIN infos : PlaceSorted(infos, j) = i]]

\* The PodResourceInfo of every container of every running pod.
RECURSIVE RunningPodInfos(_, _)
RunningPodInfos(pods, podMetrics) ==
    IF pods = <<>> THEN <<>>
    ELSE LET pod == Head(pods)
         IN (IF pod.Status.Phase # "Running"
             THEN <<>>
             ELSE [c \in DOMAIN pod.Spec.Containers |->
                      PodResourceInfo(pod, pod.Spec.Containers[c],
                          CurrentUsage(podMetrics, pod, pod.Spec.Containers[c]))])
            \o RunningPodInfos(Tail(pods), podMetrics)

\* data.AISuggestions[ns]: the entries of the map of the namespace, none
\* when it has no map.
NamespaceSuggestions(d, ns) ==
    UNION {entry[2].items : entry \in {e \in d.AISuggestions.items : e[1] = ns}}

\* A cell of the table: the configured value, or the suggested one.
Configured(value) == [suggested |-> FALSE, configured |-> value, text |-> <<>>]
Suggested(text) == [suggested |-> TRUE, configured |-> NotSet, text |-> text]

\* A cell that shows whatever the suggestion holds for a value not set.
CellUnguarded(configured, suggestion) ==
    IF ~configured.isSet THEN Suggested(suggestion) ELSE Configured(configured)

\* if suggestion.X != "KEEP" && suggestion.X != "" && pod.X == "Not Set"
Cell(configured, suggestion) ==
    IF suggestion # <<"KEEP">> /\ suggestion # <<>> /\ ~configured.isSet
    THEN Suggested(suggestion)
    ELSE Configured(configured)

\* The row of a container without a suggestion, and with one.
PlainRow(pod) ==
    [Namespace |-> pod.Namespace, PodName |-> pod.PodName,
     ContainerName |-> pod.ContainerName, Status |-> pod.Status,
     cpuReq |-> Configured(pod.CPURequest), cpuLim |-> Configured(pod.CPULimit),
     memReq |-> Configured(pod.MemoryRequest), memLim |-> Configured(pod.MemoryLimit)]

SuggestedRow(pod, suggestion) ==
    [PlainRow(pod) EXCEPT
        !.cpuReq = Cell(pod.CPURequest, suggestion.CPURequest),
        !.cpuLim = Cell(pod.CPULimit, suggestion.CPULimit),
        !.memReq = Cell(pod.MemoryRequest, suggestion.MemoryRequest),
        !.memLim = Cell(pod.MemoryLimit, suggestion.MemoryLimit)]

\* suggestion, hasSuggestion := nsSuggestions[pod.PodName + "/" + pod.ContainerName]
FoundSuggestions(pod, nsSuggestions) ==
    {entry \in nsSuggestions :
        entry[1] = SuggestionKey(pod.PodName, <<pod.ContainerName>>)}

AppendixRow(pod, found) ==
    IF found = {} THEN PlainRow(pod)
    ELSE SuggestedRow(pod, (CHOOSE entry \in found : TRUE)[2])

AppendixRows(d, podInfos) ==
    [i \in DOMAIN podInfos |->
        AppendixRow(podInfos[i],
            FoundSuggestions(podInfos[i], NamespaceSuggestions(d, podInfos[i].Namespace)))]

\* The counts of the summary.
HasRequests(pod) == pod.CPURequest.isSet /\ pod.MemoryRequest.isSet
HasLimits(pod) == pod.CPULimit.isSet /\ pod.MemoryLimit.isSet

AppendixOf(d, podInfos) ==
    [Rows |-> AppendixRows(d, podInfos),
     totalContainers |-> Len(podInfos),
     containersWithoutRequests |->
         Cardinality({i \in DOMAIN podInfos : ~HasRequests(podInfos[i])}),
     containersWithoutLimits |->
         Cardinality({i \in DOMAIN podInfos : ~HasLimits(podInfos[i])}),
     containersFullyConfigured |->
         Cardinality({i \in DOMAIN podInfos :
                         HasRequests(podInfos[i]) /\ HasLimits(podInfos[i])})]

\* podInfos is collected, then sorted, then rendered: each stage once.
generateAppendix(d) ==
    CHOOSE appendix \in
        {AppendixOf(d, podInfos) :
            podInfos \in {SortPodInfos(collected) :
                             collected \in {RunningPodInfos(d.Pods, d.PodMetrics)}}} : TRUE

\* The report, as the snapshot and the findings it is rendered from, and
\* section B of its appendix.
GenerateReport(d, a) == [Data |-> d, Analysis |-> a, Appendix |-> generateAppendix(d)]

APIKeySamples == {"", "sk-test"}

InsightCompletions ==
    {ChatCompletion(TRUE, <<>>),
     ChatCompletion(FALSE, <<>>),
     ChatCompletion(FALSE, <<"The cluster is healthy.">>)}

\* The pieces of a line with the fields given, each between the pad.
RECURSIVE Joined(_, _)
Joined(fields, pad) ==
    IF Len(fields) = 1 THEN Head(fields)
    ELSE Head(fields) \o pad \o <<"|">> \o pad \o Joined(Tail(fields), pad)

HeaderLine ==
    Joined(<< <<"POD_NAME">>, <<"CONTAINER_NAME">>, <<"CPU_REQUEST">>, <<"CPU_LIMIT">>,
              <<"MEMORY_REQUEST">>, <<"MEMORY_LIMIT">> >>, <<>>)
\* The name of the first pod of a snapshot.
SuggestedPod == <<"p", "o", "d", "-", "a">>
SuggestionFields(cpuRequest, cpuLimit, memoryRequest, memoryLimit) ==
    <<SuggestedPod, <<"app">>, cpuRequest, cpuLimit, memoryRequest, memoryLimit>>
SuggestionLine ==
    Joined(SuggestionFields(<<"100m">>, <<"200m">>, <<"64Mi">>, <<"128Mi">>), <<>>)
SuggestionCompletions ==
    {ChatCompletion(TRUE, <<>>),
     ChatCompletion(FALSE, <<>>),
     ChatCompletion(FALSE, << <<>> >>),
     ChatCompletion(FALSE, <<HeaderLine \o <<"\n">>
                             \o Joined(<<SuggestedPod, <<"app">>, <<"100m">> >>, <<>>)>>),
     ChatCompletion(FALSE, <<HeaderLine \o <<"\n">> \o SuggestionLine \o <<"\n">> >>),
     ChatCompletion(FALSE, <<Joined(SuggestionFields(<<"KEEP">>, <<"200m">>, <<>>, <<"128Mi">>),
                                    <<>>)>>),
     ChatCompletion(FALSE, <<Joined(SuggestionFields(<<"100m">>, <<"200m">>, <<"64Mi">>,
                                                     <<"128Mi">>), <<" ">>)>>)}

\* The API key is read from the environment and the client is made;
\* NewAIClient returns no error.
InitAIClient ==
    /\ pc = "analyzed"
    /\ \E apiKey \in APIKeySamples :
          /\ ai' = [ai EXCEPT !.client = IF apiKey # "" THEN "ready" ELSE "nil"]
          /\ pc' = IF apiKey # "" THEN "insights" ELSE "reporting"
    /\ UNCHANGED <<done, api, data, clock, clockEnd, nowRead, analysis, report>>

\* "Generate AI insights", up to the loop over the namespaces.
GenerateInsights ==
    /\ pc = "insights"
    /\ ai.client # "nil"
    /\ \E resp \in InsightCompletions :
          LET result == AIClientAnalyzeCluster(resp)
              namespaces == NamespacesWithMissingResources(data.Pods)
          IN /\ analysis' = WithInsights(analysis, result)
             /\ data' = [data EXCEPT !.AISuggestions = [isNil |-> FALSE, items |-> {}]]
             /\ ai' = [ai EXCEPT
                         !.pending = namespaces,
                         !.warnings = IF result.err
                                      THEN @ \cup {Warning("AnalyzeCluster", S_empty)}
                                      ELSE @]
             /\ pc' = IF namespaces = {} THEN "reporting" ELSE "suggesting"
    /\ UNCHANGED <<done, api, clock, clockEnd, nowRead, report>>

\* One round of the loop over namespacesWithMissingResources, a Go map.
SuggestForNamespace ==
    /\ pc = "suggesting"
    /\ \E ns \in ai.pending, resp \in SuggestionCompletions :
          LET result == SuggestResourceLimits(
                            collectPodResourceInfoForNamespace(data.Pods, data.PodMetrics, ns), ns, resp)
          IN /\ data' = WithSuggestions(data, ns, result)
             /\ ai' = [ai EXCEPT
                         !.pending = @ \ {ns},
                         !.warnings = IF result.err
                                      THEN @ \cup {Warning("SuggestResourceLimits", ns)}
                                      ELSE @]
             /\ pc' = IF ai.pending = {ns} THEN "reporting" ELSE "suggesting"
    /\ UNCHANGED <<done, api, clock, clockEnd, nowRead, analysis, report>>

\* GenerateReport, then os.WriteFile and log.Fatalf when it fails.
WriteReport ==
    /\ pc = "reporting"
    /\ report' = PointerTo(GenerateReport(data, analysis))
    /\ \E written \in BOOLEAN : pc' = IF written THEN "written" ELSE "fatal"
    /\ UNCHANGED <<done, api, data, clock, clockEnd, nowRead, analysis, ai>>

(***************************************************************************)
(* The snapshots.                                                          *)
(***************************************************************************)
Container(name, requests, limits) ==
    [Name |-> name, Resources |-> [Requests |-> requests, Limits |-> limits]]

\* A pod without status: no start time, no container statuses, no owner.
Pod(namespace, nodeName, containers) ==
    [Namespace |-> namespace, Name |-> S_empty,
     OwnerReferences |-> <<>>,
     Spec |-> [NodeName |-> nodeName, Containers |-> containers,
               PriorityClassName |-> ""],
     Status |-> [Phase |-> "Running", StartTime |-> Nil, ContainerStatuses |-> <<>>]]

Node(name, allocatable) == [Name |-> name, Status |-> [Allocatable |-> allocatable]]

Namespace(name) == [Name |-> name]

Event(type, component, kind, apiVersion, reason, lastTimestamp) ==
    [Type |-> type,
     Reason |-> reason,
     Message |-> S_restarting,
     Namespace |-> S_abc,
     InvolvedObject |-> [Kind |-> kind, Name |-> S_web, Namespace |-> S_abc,
                         APIVersion |-> apiVersion, FieldPath |-> "spec.containers{app}"],
     Source |-> [Component |-> component, Host |-> "n1"],
     Count |-> 1,
     FirstTimestamp |-> lastTimestamp,
     LastTimestamp |-> lastTimestamp]

\* All sequences over S of length at most n.
SeqsUpTo(S, n) == UNION {[1..k -> S] : k \in 0..n}

\* Pods of one namespace have distinct names: the pod at position i is
\* named "pod-" followed by the i-th letter.
PodNameAt(i) == <<"p", "o", "d", "-", LowerCase[i]>>
Named(pods) == [i \in DOMAIN pods |-> [pods[i] EXCEPT !.Name = PodNameAt(i)]]

\* A ClusterData with the pods as given.
ClusterData(pods, nodes, events, namespaces, backups) ==
    [Pods |-> pods, Nodes |-> nodes, Events |-> events, Namespaces |-> namespaces,
     VeleroBackups |-> backups,
     PodMetrics |-> {},
     AISuggestions |-> [isNil |-> TRUE, items |-> {}]]

Snapshot(pods, nodes, events, namespaces) ==
    ClusterData(Named(pods), nodes, events, namespaces, <<>>)

ClockSamples == {1000}

\* One call of AnalyzeCluster takes far less than an hour: the clock stays
\* in the same hour or moves into the next one between two of its reads.
DriftSamples == {0, 1}

\* Containers with every kind of request and limit map.
RequestSamples ==
    {NilList, EmptyList, CpuMemory(0, 0), CpuOnly(100), MemoryOnly(64), CpuMemory(100, 64)}
LimitSamples == {NilList, EmptyList, MemoryOnly(128), CpuMemory(200, 128)}
GapPodSamples ==
    {Pod(S_abc, "n1", <<Container("app", r, l)>>) : r \in RequestSamples, l \in LimitSamples}
    \cup {Pod(S_abc, "n1", <<Container("app", CpuMemory(100, 64), CpuMemory(200, 128)),
                             Container("sidecar", NilList, NilList)>>),
          Pod(S_abc, "n1", <<Container("app", NilList, MemoryOnly(128)),
                             Container("sidecar", CpuOnly(100), NilList)>>),
          Pod(S_abc, "n1", <<Container("app", CpuOnly(100), MemoryOnly(128)),
                             Container("sidecar", MemoryOnly(64), CpuMemory(200, 128))>>)}

GapSnapshots ==
    {Snapshot(pods, <<>>, <<>>, <<>>) : pods \in SeqsUpTo(GapPodSamples, MaxGapPods)}

\* Nodes with and without allocatable CPU and memory, pods that request
\* 80% of a node between them, or a little more.
AllocatableSamples == {CpuMemory(1000, 1000), MemoryOnly(1000), CpuMemory(1000, 0)}
NodeSamples == {Node(n, a) : n \in {"n1", "n2"}, a \in AllocatableSamples}
NodeLists ==
    {nodes \in SeqsUpTo(NodeSamples, MaxNodes) :
        \A i, j \in DOMAIN nodes : i # j => nodes[i].Name # nodes[j].Name}
Full == CpuMemory(2000, 2000)
NodePodSamples ==
    {Pod(S_abc, n, <<Container("app", r, Full)>>) :
        n \in {"n1", "n2"},
        r \in {NilList, CpuMemory(400, 400), CpuMemory(401, 400), CpuMemory(400, 401)}}
    \cup {Pod(S_abc, "", <<Container("app", CpuMemory(900, 900), Full)>>),
          Pod(S_abc, "n1", <<Container("app", CpuMemory(400, 0), Full),
                             Container("sidecar", CpuOnly(401), Full)>>)}

NodeSnapshots ==
    {Snapshot(pods, nodes, <<>>, <<>>) :
        pods \in SeqsUpTo(NodePodSamples, MaxNodePods), nodes \in NodeLists}

\* Namespaces with 3-letter names and others, pods with and without requests.
NamespaceLists ==
    {namespaces \in SeqsUpTo({Namespace(S_abc), Namespace(S_xyz), Namespace(S_prod)}, MaxNamespaces) :
        \A i, j \in DOMAIN namespaces : i # j => namespaces[i] # namespaces[j]}
NsPodSamples ==
    {Pod(ns, "n1", <<Container("app", r, NilList)>>) :
        ns \in {S_abc, S_xyz}, r \in {NilList, CpuMemory(100, 64)}}
    \cup {Pod(S_prod, "n1", <<Container("app", NilList, Full)>>)}

NamespaceSnapshots ==
    {Snapshot(pods, <<>>, <<>>, namespaces) :
        pods \in SeqsUpTo(NsPodSamples, MaxNsPods), namespaces \in NamespaceLists}

\* Events of every Flux and non-Flux shape (an API group is a DNS name, in
\* lower case), of the three types, recent, near the 24h and 48h thresholds,
\* and without a timestamp.
EventShapes ==
    {<<S_kubelet, S_Pod, S_v1>>,
     <<S_Flux_ctl, S_Pod, S_v1>>,
     <<S_empty, S_HelmRelease, S_v1>>,
     <<S_kubelet, S_helmrelease, S_v1>>,
     <<S_kubelet, S_Kustomization, S_v1>>,
     <<S_kubelet, S_HelmReleaseList, S_v1>>,
     <<S_kubelet, S_Pod, S_fluxcd_api>>}
EventSamples(now) ==
    {Event("Warning", s[1], s[2], s[3], S_BackOff, now - 1) : s \in EventShapes}
    \cup {Event("Normal", S_kubelet, S_Pod, S_v1, S_BackOff, now - 1),
          Event("Error", S_kubelet, S_Pod, S_v1, S_BackOff, now - 1),
          Event("Error", S_empty, S_HelmRelease, S_v1, S_BackOff, now - 1)}
    \cup {Event("Warning", s[1], s[2], s[3], S_BackOff, last) :
            last \in {now - 23, now - 47},
            s \in {<<S_kubelet, S_Pod, S_v1>>, <<S_empty, S_HelmRelease, S_v1>>}}
    \cup {Event("Warning", S_kubelet, S_Pod, S_v1, S_BackOff, 0)}

EventSnapshots(now) ==
    {Snapshot(<<>>, <<>>, events, <<>>) : events \in SeqsUpTo(EventSamples(now), MaxEvents)}

\* Events with "OOMKilled" in the reason, in the message only, or nowhere;
\* of a Flux source; of every type; recent, old and without a timestamp.
WithMessage(event, message) == [event EXCEPT !.Message = message]
OOMStreamSamples(now) ==
    {Event("Warning", S_kubelet, S_Pod, S_v1, S_OOMKilled, now - 1),
     WithMessage(Event("Warning", S_kubelet, S_Pod, S_v1, S_BackOff, now - 2), S_was_OOMKilled),
     Event("Warning", S_Flux_ctl, S_HelmRelease, S_v1, S_OOMKilled, now - 3),
     Event("Normal", S_kubelet, S_Pod, S_v1, S_OOMKilled, now - 4),
     Event("Warning", S_kubelet, S_Pod, S_v1, S_OOMKilled, now - 72),
     Event("Warning", S_kubelet, S_Pod, S_v1, S_OOMKilled, 0),
     Event("Warning", S_kubelet, S_Pod, S_v1, S_OOMKilling, now - 5),
     Event("Warning", S_kubelet, S_Pod, S_v1, S_BackOff, now - 6),
     Event("Error", S_Flux_ctl, S_HelmRelease, S_v1, S_BackOff, now - 7)}

OOMStreamSnapshots(now) ==
    {Snapshot(<<>>, <<>>, events, <<>>) :
        events \in SeqsUpTo(OOMStreamSamples(now), MaxStreamEvents)}

\* Container statuses without restarts and with restarts, with and without a
\* last termination state, a current terminated state and a pod start time,
\* with and without a reason, last restarted inside, outside and on the edge
\* of the windows.
Terminated(finishedAt, reason) == PointerTo([FinishedAt |-> finishedAt, Reason |-> reason])

ContainerStatus(name, restartCount, lastTerminated, terminated) ==
    [Name |-> name,
     RestartCount |-> restartCount,
     LastTerminationState |-> [Terminated |-> lastTerminated],
     State |-> [Terminated |-> terminated]]

WithStatus(pod, startTime, statuses) ==
    [pod EXCEPT !.Status.StartTime = startTime, !.Status.ContainerStatuses = statuses]

ContainerStatusSamples(now) ==
    {ContainerStatus("app", 0, Nil, Nil),
     ContainerStatus("app", 3, Terminated(now - 1, "OOMKilled"), Nil),
     ContainerStatus("app", 2, Terminated(now - 30, ""), Terminated(now - 2, "Error")),
     ContainerStatus("app", 1, Nil, Terminated(now - 100, "Completed")),
     ContainerStatus("app", 5, Nil, Nil),
     ContainerStatus("app", 1, Terminated(now - 24, "Error"), Nil),
     ContainerStatus("app", 1, Terminated(now - 168, "Error"), Nil),
     ContainerStatus("app", 4, Terminated(now - 200, "Error"), Nil)}

RestartPodSamples(now) ==
    {WithStatus(Pod(S_abc, "n1", <<Container("app", Full, Full)>>), startTime, <<status>>) :
        startTime \in {Nil, PointerTo(now - 10)},
        status \in ContainerStatusSamples(now)}
    \cup {WithStatus(Pod(S_abc, "n1", <<Container("app", Full, Full),
                                        Container("sidecar", Full, Full)>>),
                     PointerTo(now - 50),
                     <<ContainerStatus("app", 1, Nil, Nil),
                       ContainerStatus("sidecar", 7, Terminated(now - 3, "Error"), Nil)>>)}

RestartSnapshots(now) ==
    {Snapshot(pods, <<>>, <<>>, <<>>) :
        pods \in SeqsUpTo(RestartPodSamples(now), MaxRestartPods)}

\* Backup objects without a status, with a status that is no map, without a
\* start timestamp or with one that is no string or no RFC3339 timestamp;
\* and backups of every phase started inside, outside and on the edge of the
\* windows.  The timestamps are those of a clock at 0001-02-11T16:00:00Z,
\* hour 1000.
Backup(object) == [Name |-> S_empty, Namespace |-> "velero", Object |-> object]

BackupWithStatus(status) == Backup([spec |-> MapValue([ttl |-> StringValue(S_empty)]), status |-> MapValue(status)])

BackupSamples ==
    {Backup([spec |-> MapValue([ttl |-> StringValue(S_empty)])]),
     Backup([spec |-> MapValue([ttl |-> StringValue(S_empty)]), status |-> StringValue(S_Failed)]),
     BackupWithStatus([phase |-> StringValue(S_Failed)]),
     BackupWithStatus([phase |-> StringValue(S_Failed), startTimestamp |-> Int64Value(998)]),
     BackupWithStatus([phase |-> StringValue(S_Failed), startTimestamp |-> StringValue(Stamp_yesterday)]),
     BackupWithStatus([phase |-> StringValue(S_Failed), startTimestamp |-> StringValue(Stamp_no_T)]),
     BackupWithStatus([phase |-> StringValue(S_Failed), startTimestamp |-> StringValue(Stamp_february_30)]),
     BackupWithStatus([phase |-> StringValue(S_Failed), startTimestamp |-> StringValue(Stamp_2h_ago),
                       errors |-> Int64Value(2)]),
     BackupWithStatus([phase |-> StringValue(S_Completed), startTimestamp |-> StringValue(Stamp_2h_ago),
                       completionTimestamp |-> StringValue(Stamp_1h_ago)]),
     BackupWithStatus([phase |-> StringValue(S_Completed), startTimestamp |-> StringValue(Stamp_2h_ago_offset)]),
     BackupWithStatus([phase |-> StringValue(S_PartiallyFailed), startTimestamp |-> StringValue(Stamp_30h_ago)]),
     BackupWithStatus([phase |-> StringValue(S_Failed), startTimestamp |-> StringValue(Stamp_24h_ago)]),
     BackupWithStatus([phase |-> StringValue(S_Failed), startTimestamp |-> StringValue(Stamp_just_under_24h_ago)]),
     BackupWithStatus([phase |-> StringValue(S_Failed), startTimestamp |-> StringValue(Stamp_48h_ago)]),
     BackupWithStatus([startTimestamp |-> StringValue(Stamp_72h_ago)])}

\* Backups have distinct names: the one at position i is named "b" and i.
NamedBackups(backups) ==
    [i \in DOMAIN backups |-> [backups[i] EXCEPT !.Name = <<"b", Digits[i + 1]>>]]

BackupSnapshots ==
    {ClusterData(<<>>, <<>>, <<>>, <<>>, NamedBackups(backups)) :
        backups \in SeqsUpTo(BackupSamples, MaxBackups)}

\* Pods named after RabbitMQ in lower and in mixed case and a pod named
\* otherwise, with and without a priority class and a memory limit; with and
\* without a recent OOM event of a RabbitMQ pod.
WithName(pod, name) == [pod EXCEPT !.Name = name]
WithPriorityClass(pod, priorityClassName) ==
    [pod EXCEPT !.Spec.PriorityClassName = priorityClassName]

RabbitPodSamples ==
    {WithName(WithPriorityClass(Pod(S_abc, "n1", containers), priorityClassName), name) :
        name \in {S_rabbitmq_0, S_RabbitMQ_1, S_web_1},
        priorityClassName \in {"", "high"},
        containers \in {<<Container("app", Full, NilList)>>,
                        <<Container("app", Full, CpuOnly(200))>>,
                        <<Container("app", Full, CpuOnly(200)),
                          Container("sidecar", Full, CpuMemory(200, 128))>>}}

RabbitPodLists ==
    {pods \in SeqsUpTo(RabbitPodSamples, MaxRabbitPods) :
        \A i, j \in DOMAIN pods : i # j => pods[i].Name # pods[j].Name}

RabbitSnapshots(now) ==
    {ClusterData(pods, <<>>, events, <<>>, <<>>) :
        pods \in RabbitPodLists,
        events \in {<<>>,
                    <<[Event("Warning", S_kubelet, S_Pod, S_v1, S_OOMKilled, now - 1)
                          EXCEPT !.InvolvedObject.Name = S_rabbitmq_0]>>}}

\* Pods of two namespaces with and without requests and limits, running and
\* pending.
MainPodSamples ==
    {Pod(namespace, "n1", <<Container("app", requests, limits)>>) :
        namespace \in {S_abc, S_xyz},
        requests \in {NilList, CpuMemory(100, 64)},
        limits \in {MemoryOnly(128), CpuMemory(200, 128)}}
    \cup {[Pod(S_abc, "n1", <<Container("app", NilList, NilList)>>)
              EXCEPT !.Status.Phase = "Pending"]}

MainSnapshots ==
    {Snapshot(pods, <<>>, <<>>, <<>>) : pods \in SeqsUpTo(MainPodSamples, MaxMainPods)}

\* The listings of a cluster: each fails or succeeds; the metrics and the
\* backups may also be of a kind the cluster does not serve (an error).
MetricsItemSamples ==
    {<<>>,
     <<[namespace |-> S_abc, name |-> PodNameAt(1),
        containers |-> PointerTo(<<[name |-> "app",
                                    usage |-> PointerTo([cpu |-> "5m", memory |-> "20Mi"])],
                                   [name |-> "sidecar", usage |-> Nil]>>)],
       [namespace |-> S_abc, name |-> PodNameAt(2), containers |-> Nil]>>}

ApiSamples ==
    {[pods |-> pods, metrics |-> metrics, nodes |-> nodes, events |-> events,
      namespaces |-> namespaces, backups |-> backups] :
        pods \in {ListResponse(TRUE, <<>>),
                  ListResponse(FALSE, <<>>),
                  ListResponse(FALSE, Named(<<Pod(S_abc, "n1", <<Container("app", NilList, NilList)>>)>>))},
        metrics \in {ListResponse(TRUE, <<>>)}
                    \cup {ListResponse(FALSE, items) : items \in MetricsItemSamples},
        nodes \in {ListResponse(TRUE, <<>>),
                   ListResponse(FALSE, <<Node("n1", CpuMemory(1000, 1000))>>)},
        events \in {ListResponse(TRUE, <<>>), ListResponse(FALSE, <<>>)},
        namespaces \in {ListResponse(TRUE, <<>>),
                        ListResponse(FALSE, <<Namespace(S_abc)>>)},
        backups \in {ListResponse(TRUE, Nil),
                     ListResponse(FALSE, Nil),
                     ListResponse(FALSE, PointerTo(NamedBackups(<<
                         BackupWithStatus([phase |-> StringValue(S_Failed),
                                           startTimestamp |-> StringValue(Stamp_2h_ago)])>>)))}}

\* Snapshots on which every detector finds something, two namespaces of one
\* tier and events at the edge of the 24h window among them.
WorkerSnapshots(now) ==
    {ClusterData(Named(pods), <<Node("n1", CpuMemory(100, 100))>>, events,
                 <<Namespace(S_xyz), Namespace(S_abc)>>,
                 NamedBackups(<<BackupWithStatus([phase |-> StringValue(S_Failed),
                                                  startTimestamp |-> StringValue(Stamp_2h_ago)])>>)) :
        pods \in {<<>>,
                  <<Pod(S_xyz, "n1", <<Container("app", NilList, NilList)>>),
                    Pod(S_abc, "n1", <<Container("app", CpuMemory(100, 64), NilList)>>)>>},
        events \in {<<>>,
                    <<Event("Warning", S_kubelet, S_Pod, S_v1, S_OOMKilled, now - 1),
                      Event("Warning", S_kubelet, S_Pod, S_v1, S_BackOff, now - 23),
                      Event("Warning", S_empty, S_HelmRelease, S_v1, S_BackOff, now - 23)>>}}

\* Snapshots for the synthesizer: with and without resource gaps, node
\* pressure, and from none to more than ten OOM events.
SynthPodSamples ==
    {Pod(S_abc, "n1", <<Container("app", CpuMemory(100, 64), Full)>>),
     Pod(S_abc, "n1", <<Container("app", NilList, NilList)>>),
     Pod(S_abc, "n1", <<Container("app", CpuMemory(900, 900), Full)>>)}
OOMEventList(now, k) ==
    [i \in 1..k |-> Event("Warning", S_kubelet, S_Pod, S_v1, S_OOMKilled, now - i)]
SynthEventLists(now) ==
    {OOMEventList(now, k) \o tail :
        k \in 0..MaxOOMEvents,
        tail \in {<<>>, <<Event("Warning", S_kubelet, S_Pod, S_v1, S_BackOff, now - 1)>>}}

SynthSnapshots(now) ==
    {Snapshot(pods, nodes, events, <<>>) :
        pods \in SeqsUpTo(SynthPodSamples, MaxSynthPods),
        nodes \in {<<>>, <<Node("n1", CpuMemory(1000, 1000))>>},
        events \in SynthEventLists(now)}

\* A snapshot in which every list of records has several entries that are
\* not in the order of the result: OOM events one, three and two hours old,
\* Flux events of the three types, a pod with two restarting containers and
\* a pod of the same name in another namespace, and three backups.
MixedPods(now) ==
    <<WithName(WithStatus(Pod(S_abc, "n1", <<Container("app", Full, Full),
                                             Container("sidecar", Full, Full)>>),
                          PointerTo(now - 50),
                          <<ContainerStatus("app", 1, Terminated(now - 1, "Error"), Nil),
                            ContainerStatus("sidecar", 7, Terminated(now - 3, "OOMKilled"), Nil)>>),
               S_web_1),
      WithName(WithStatus(Pod(S_xyz, "n1", <<Container("app", Full, Full)>>),
                          PointerTo(now - 50),
                          <<ContainerStatus("app", 3, Terminated(now - 30, "Error"), Nil)>>),
               S_web_1)>>
MixedEvents(now) ==
    <<Event("Warning", S_kubelet, S_Pod, S_v1, S_OOMKilled, now - 1),
      Event("Warning", S_kubelet, S_Pod, S_v1, S_OOMKilled, now - 3),
      Event("Warning", S_kubelet, S_Pod, S_v1, S_OOMKilled, now - 2),
      Event("Warning", S_kubelet, S_Pod, S_v1, S_BackOff, now - 30),
      Event("Warning", S_empty, S_HelmRelease, S_v1, S_BackOff, now - 30),
      Event("Error", S_empty, S_HelmRelease, S_v1, S_BackOff, now - 2),
      Event("Normal", S_empty, S_HelmRelease, S_v1, S_BackOff, now - 5)>>
MixedBackups ==
    <<BackupWithStatus([phase |-> StringValue(S_PartiallyFailed),
                        startTimestamp |-> StringValue(Stamp_30h_ago)]),
      BackupWithStatus([phase |-> StringValue(S_Completed),
                        startTimestamp |-> StringValue(Stamp_2h_ago)]),
      BackupWithStatus([phase |-> StringValue(S_Failed),
                        startTimestamp |-> StringValue(Stamp_just_under_24h_ago)])>>
MixedSnapshot(now) ==
    ClusterData(MixedPods(now), <<>>, MixedEvents(now), <<>>, NamedBackups(MixedBackups))

\* The snapshots of the detectors that return lists, without the events
\* near the thresholds, which come with a clock that moves.
ListSnapshots(now) ==
    RestartSnapshots(now) \cup BackupSnapshots
        \cup {Snapshot(<<>>, <<>>, OOMEventList(now, k), <<>>) : k \in 0..MaxOOMEvents}

(***************************************************************************)
(* The state machine.  The initial state is the one in which               *)
(* CollectClusterData has returned a snapshot; the detectors of a snapshot *)
(* without events read no timestamps, so only the snapshots with events    *)
(* let the clock advance during the run.                                   *)
(***************************************************************************)
\* The listings that returned the snapshot d.
ListedFrom(d) ==
    [pods |-> ListResponse(FALSE, d.Pods),
     metrics |-> ListResponse(FALSE, <<>>),
     nodes |-> ListResponse(FALSE, d.Nodes),
     events |-> ListResponse(FALSE, d.Events),
     namespaces |-> ListResponse(FALSE, d.Namespaces),
     backups |-> ListResponse(FALSE, PointerTo(d.VeleroBackups))]

InitWith(snapshots, drift) ==
    /\ data \in snapshots
    /\ api = ListedFrom(data)
    /\ done = {}
    /\ clockEnd \in {clock + d : d \in drift}
    /\ nowRead = [Restarts |-> 0, Flux |-> 0, NonFlux |-> 0, Velero |-> 0]
    /\ analysis = NewAnalysis
    /\ ai = [client |-> "nil", pending |-> {}, warnings |-> {}]
    /\ report = Nil
    /\ pc = "collected"

InitGaps == clock \in ClockSamples /\ InitWith(GapSnapshots, {0})
InitNodes == clock \in ClockSamples /\ InitWith(NodeSnapshots, {0})
InitNamespaces == clock \in ClockSamples /\ InitWith(NamespaceSnapshots, {0})
InitEvents == clock \in ClockSamples /\ InitWith(EventSnapshots(clock), DriftSamples)
InitOOMStream == clock \in ClockSamples /\ InitWith(OOMStreamSnapshots(clock), {0})
InitRestarts == clock \in ClockSamples /\ InitWith(RestartSnapshots(clock), {0})
InitBackups == clock \in ClockSamples /\ InitWith(BackupSnapshots, {0})
InitRabbit == clock \in ClockSamples /\ InitWith(RabbitSnapshots(clock), {0})
InitMain == clock \in ClockSamples /\ InitWith(MainSnapshots, {0})
InitCollect ==
    /\ clock \in ClockSamples
    /\ api \in ApiSamples
    /\ done = {}
    /\ data = Nil
    /\ clockEnd = clock
    /\ nowRead = [Restarts |-> 0, Flux |-> 0, NonFlux |-> 0, Velero |-> 0]
    /\ analysis = NewAnalysis
    /\ ai = [client |-> "nil", pending |-> {}, warnings |-> {}]
    /\ report = Nil
    /\ pc = "start"
\* AnalyzeCluster has been called and no detector has returned.
InitWorkers ==
    /\ clock \in ClockSamples
    /\ data \in WorkerSnapshots(clock)
    /\ api = ListedFrom(data)
    /\ done = {}
    /\ clockEnd \in {clock + d : d \in DriftSamples}
    /\ nowRead = [Restarts |-> 0, Flux |-> 0, NonFlux |-> 0, Velero |-> 0]
    /\ analysis = NewAnalysis
    /\ ai = [client |-> "nil", pending |-> {}, warnings |-> {}]
    /\ report = Nil
    /\ pc = "detecting"
InitSynth == clock \in ClockSamples /\ InitWith(SynthSnapshots(clock), {0})
InitLists ==
    /\ clock \in ClockSamples
    /\ \/ InitWith(EventSnapshots(clock) \cup {MixedSnapshot(clock)}, DriftSamples)
       \/ InitWith(ListSnapshots(clock), {0})

Init ==
    \/ InitGaps \/ InitNodes \/ InitNamespaces \/ InitEvents \/ InitSynth
    \/ InitOOMStream \/ InitRestarts \/ InitBackups \/ InitRabbit

Next == AnalyzeCluster

Spec == Init /\ [][Next]_vars
SpecGaps == InitGaps /\ [][Next]_vars
SpecNodes == InitNodes /\ [][Next]_vars
SpecNamespaces == InitNamespaces /\ [][Next]_vars
SpecEvents == InitEvents /\ [][Next]_vars
SpecSynth == InitSynth /\ [][Next]_vars
SpecLists == InitLists /\ [][Next]_vars
SpecOOMStream == InitOOMStream /\ [][Next]_vars
SpecRestarts == InitRestarts /\ [][Next]_vars
SpecBackups == InitBackups /\ [][Next]_vars
SpecRabbit == InitRabbit /\ [][Next]_vars

\* func main: a sequential program, which takes its next step as long as it
\* has one.
NextMain ==
    \/ AnalyzeCluster
    \/ InitAIClient
    \/ GenerateInsights
    \/ SuggestForNamespace
    \/ WriteReport

\* main runs on from AnalyzeCluster: no step after it waits for anything.
SpecMain ==
    /\ InitMain
    /\ [][NextMain]_vars
    /\ WF_vars(InitAIClient \/ GenerateInsights \/ SuggestForNamespace \/ WriteReport)

\* func main from the collection of the snapshot on.
NextProgram ==
    \/ CollectClusterData
    \/ NextMain

SpecCollect == InitCollect /\ [][NextProgram]_vars

\* The detectors of AnalyzeCluster in any order.
NextWorkers ==
    \/ RunDetector
    \/ Synthesize

SpecWorkers == InitWorkers /\ [][NextWorkers]_vars

(***************************************************************************)
(* Properties.                                                             *)
(***************************************************************************)
Analyzed == pc = "analyzed"

\* The number of entries of `list` equal to x.
CountIn(list, x) == Cardinality({i \in DOMAIN list : list[i] = x})

\* Two lists with the same entries, each as often, in any order.
SameEntries(l1, l2) ==
    /\ Len(l1) = Len(l2)
    /\ \A i \in DOMAIN l1 : CountIn(l1, l1[i]) = CountIn(l2, l1[i])

RECURSIVE SumSeq(_)
SumSeq(s) == IF s = <<>> THEN 0 ELSE Head(s) + SumSeq(Tail(s))

\* C1: the ClusterHealth of the returned Analysis agrees with the returned
\* findings: "critical" if more than 3 returned issues have priority <= 2 or
\* there are more than 10 OOM events, else "degraded" if some returned issue
\* has priority <= 2 or there is an OOM event, else "healthy".
C1_HealthAgreesWithFindings ==
    Analyzed =>
        LET urgent == {i \in DOMAIN analysis.CriticalIssues : analysis.CriticalIssues[i].Priority <= 2}
            ooms == Len(analysis.OOMEvents)
        IN analysis.ClusterHealth =
              (IF Cardinality(urgent) > 3 \/ ooms > 10 THEN "critical"
               ELSE IF urgent # {} \/ ooms >= 1 THEN "degraded"
               ELSE "healthy")

\* C2: a request (limit) map counts as missing iff it is absent or its CPU
\* and memory quantities are both zero.
AbsentOrAllZero(rl) ==
    rl.isNil \/ \A it \in rl.items : it[1] \in {"cpu", "memory"} => it[2] = 0

\* The gap records of the container c of pod p.
GapRecordsOf(p, c) ==
    {i \in DOMAIN analysis.ResourceGaps :
        /\ analysis.ResourceGaps[i].Namespace = data.Pods[p].Namespace
        /\ analysis.ResourceGaps[i].PodName = data.Pods[p].Name
        /\ analysis.ResourceGaps[i].Container = data.Pods[p].Spec.Containers[c].Name}

\* C2: every container with a missing request or limit map has exactly one
\* gap record, whose two flags say which map is missing; every other
\* container has none; and the gap list holds nothing else.
C2_GapIffMissing ==
    Analyzed =>
        /\ \A p \in DOMAIN data.Pods : \A c \in DOMAIN data.Pods[p].Spec.Containers :
              LET container == data.Pods[p].Spec.Containers[c]
                  noRequests == AbsentOrAllZero(container.Resources.Requests)
                  noLimits == AbsentOrAllZero(container.Resources.Limits)
              IN IF noRequests \/ noLimits
                 THEN /\ Cardinality(GapRecordsOf(p, c)) = 1
                      /\ \A i \in GapRecordsOf(p, c) :
                            /\ analysis.ResourceGaps[i].MissingRequests = noRequests
                            /\ analysis.ResourceGaps[i].MissingLimits = noLimits
                 ELSE GapRecordsOf(p, c) = {}
        /\ \A i \in DOMAIN analysis.ResourceGaps :
              \E p \in DOMAIN data.Pods : \E c \in DOMAIN data.Pods[p].Spec.Containers :
                  i \in GapRecordsOf(p, c)

\* C2 witness: a pod with two containers of which exactly one has a gap, in
\* a snapshot whose other pod has a gap, too.
C2_Witness ==
    /\ Analyzed
    /\ Len(analysis.ResourceGaps) = 2
    /\ \E p \in DOMAIN data.Pods :
          /\ Len(data.Pods[p].Spec.Containers) = 2
          /\ GapRecordsOf(p, 1) = {}
          /\ GapRecordsOf(p, 2) # {}

\* The node issues of kind `issue` reported for the node named `name`.
IssuesOf(name, issue) ==
    {i \in DOMAIN analysis.NodeIssues :
        analysis.NodeIssues[i].NodeName = name /\ analysis.NodeIssues[i].Issue = issue}

\* C3: a node whose allocatable CPU is 0 has no "High CPU requests" issue,
\* and a node whose allocatable memory is 0 has no "High memory requests"
\* issue, whatever the pods scheduled on it request.
C3_ZeroAllocatableNoIssue ==
    Analyzed =>
        \A n \in DOMAIN data.Nodes :
            /\ Cpu(data.Nodes[n].Status.Allocatable) = 0
                  => IssuesOf(data.Nodes[n].Name, "High CPU requests") = {}
            /\ Memory(data.Nodes[n].Status.Allocatable) = 0
                  => IssuesOf(data.Nodes[n].Name, "High memory requests") = {}

\* The CPU millicores (memory bytes) requested by the containers of the pods
\* assigned to the node named `name`.
ScheduledOn(name) == SelectSeq(data.Pods, LAMBDA pod : pod.Spec.NodeName = name)
RequestedCPUOn(name) ==
    SumSeq([p \in DOMAIN ScheduledOn(name) |->
              SumSeq([c \in DOMAIN ScheduledOn(name)[p].Spec.Containers |->
                        Cpu(ScheduledOn(name)[p].Spec.Containers[c].Resources.Requests)])])
RequestedMemoryOn(name) ==
    SumSeq([p \in DOMAIN ScheduledOn(name) |->
              SumSeq([c \in DOMAIN ScheduledOn(name)[p].Spec.Containers |->
                        Memory(ScheduledOn(name)[p].Spec.Containers[c].Resources.Requests)])])

\* C4: a node with non-zero allocatable CPU and memory has one "High CPU
\* requests" issue if the CPU requested on it is strictly more than 80% of
\* its allocatable CPU and none otherwise, and, independently, one "High
\* memory requests" issue if the memory requested on it is strictly more
\* than 80% of its allocatable memory and none otherwise.
C4_IssueIffAbove80Percent ==
    Analyzed =>
        \A n \in DOMAIN data.Nodes :
            LET node == data.Nodes[n]
                cpu == Cpu(node.Status.Allocatable)
                memory == Memory(node.Status.Allocatable)
            IN cpu # 0 /\ memory # 0 =>
                 /\ Cardinality(IssuesOf(node.Name, "High CPU requests")) =
                       (IF 100 * RequestedCPUOn(node.Name) > 80 * cpu THEN 1 ELSE 0)
                 /\ Cardinality(IssuesOf(node.Name, "High memory requests")) =
                       (IF 100 * RequestedMemoryOn(node.Name) > 80 * memory THEN 1 ELSE 0)

\* C4 witness: two pods on a node request exactly 80% of its CPU and more
\* than 80% of its memory between them; the node has the memory issue alone.
C4_Witness ==
    /\ Analyzed
    /\ \E n \in DOMAIN data.Nodes :
          LET node == data.Nodes[n]
          IN /\ Cpu(node.Status.Allocatable) # 0
             /\ Memory(node.Status.Allocatable) # 0
             /\ Len(ScheduledOn(node.Name)) = 2
             /\ 100 * RequestedCPUOn(node.Name) = 80 * Cpu(node.Status.Allocatable)
             /\ 100 * RequestedMemoryOn(node.Name) > 80 * Memory(node.Status.Allocatable)
             /\ IssuesOf(node.Name, "High CPU requests") = {}
             /\ IssuesOf(node.Name, "High memory requests") # {}

\* The pods of the snapshot in the namespace `name`, and those of them with
\* no container that requests a non-zero amount of CPU or memory.
PodsIn(name) == {p \in DOMAIN data.Pods : data.Pods[p].Namespace = name}
PodsWithoutRequestsIn(name) ==
    {p \in PodsIn(name) :
        \A c \in DOMAIN data.Pods[p].Spec.Containers :
            /\ Cpu(data.Pods[p].Spec.Containers[c].Resources.Requests) = 0
            /\ Memory(data.Pods[p].Spec.Containers[c].Resources.Requests) = 0}

\* The tier of a namespace with `without` of `total` pods lacking requests.
Tier(without, total) ==
    IF 100 * without > 75 * total THEN "critical"
    ELSE IF 100 * without > 50 * total THEN "high"
    ELSE IF 100 * without > 25 * total THEN "medium"
    ELSE "low"

\* C5: every reported namespace carries the number of its pods, the number
\* of its pods without requests, and the tier these two give: critical above
\* 75%, high above 50%, medium above 25%, else low.
C5_TierIsStepFunction ==
    Analyzed =>
        \A i \in DOMAIN analysis.NamespaceAnalysis :
            LET entry == analysis.NamespaceAnalysis[i]
                total == Cardinality(PodsIn(entry.Namespace))
                without == Cardinality(PodsWithoutRequestsIn(entry.Namespace))
            IN /\ entry.TotalPods = total
               /\ entry.PodsWithoutRequests = without
               /\ entry.RiskLevel = Tier(without, total)

\* C5 witness: a namespace with 3 of 4 pods lacking requests (exactly 75%)
\* is reported high.
C5_Witness ==
    /\ Analyzed
    /\ \E i \in DOMAIN analysis.NamespaceAnalysis :
          /\ analysis.NamespaceAnalysis[i].TotalPods = 4
          /\ analysis.NamespaceAnalysis[i].PodsWithoutRequests = 3
          /\ analysis.NamespaceAnalysis[i].RiskLevel = "high"

\* The namespace names of the snapshot's namespace list and of its pods.
SnapshotNamespaceNames ==
    {data.Namespaces[i].Name : i \in DOMAIN data.Namespaces}
    \cup {data.Pods[p].Namespace : p \in DOMAIN data.Pods}

\* The entries of the namespace risk list for the namespace `name`.
EntriesOf(name) ==
    {i \in DOMAIN analysis.NamespaceAnalysis : analysis.NamespaceAnalysis[i].Namespace = name}

\* A namespace the risk list has to report: listed in the snapshot, with a
\* name of 3 characters that does not start with "kube-", and with a pod.
Qualifies(name) ==
    /\ \E i \in DOMAIN data.Namespaces : data.Namespaces[i].Name = name
    /\ Len(name) = 3
    /\ ~(Len(name) >= 5 /\ SubSeq(name, 1, 5) = S_kube_prefix)
    /\ PodsIn(name) # {}

\* C6: the namespace risk list has exactly one entry for each qualifying
\* namespace and none for any other; each entry's TotalPods is the number of
\* snapshot pods in its namespace, at least 1.
C6_ExactlyQualifyingNamespaces ==
    Analyzed =>
        /\ \A name \in SnapshotNamespaceNames :
              Cardinality(EntriesOf(name)) = (IF Qualifies(name) THEN 1 ELSE 0)
        /\ \A i \in DOMAIN analysis.NamespaceAnalysis :
              LET entry == analysis.NamespaceAnalysis[i]
              IN /\ Qualifies(entry.Namespace)
                 /\ entry.TotalPods >= 1
                 /\ entry.TotalPods = Cardinality(PodsIn(entry.Namespace))

\* C6 witness: of two listed namespaces one has a longer name and a pod,
\* and a pod is in a namespace that is not listed; one namespace is reported.
C6_Witness ==
    /\ Analyzed
    /\ Len(data.Namespaces) = 2
    /\ \E i \in DOMAIN data.Namespaces :
          Len(data.Namespaces[i].Name) # 3 /\ PodsIn(data.Namespaces[i].Name) # {}
    /\ \E p \in DOMAIN data.Pods :
          \A i \in DOMAIN data.Namespaces : data.Namespaces[i].Name # data.Pods[p].Namespace
    /\ Len(analysis.NamespaceAnalysis) = 1

\* The place of the namespace `name` in the snapshot's namespace list.
PlaceOf(name) == CHOOSE i \in DOMAIN data.Namespaces : data.Namespaces[i].Name = name

TierRank(level) ==
    CASE level = "critical" -> 0 [] level = "high" -> 1 [] level = "medium" -> 2 [] level = "low" -> 3

\* C7: the namespace risk list is ordered by tier (critical, high, medium,
\* low), and entries of one tier are in the order of the snapshot's
\* namespace list.
C7_OrderedByTierThenEncounter ==
    Analyzed =>
        \A i, j \in DOMAIN analysis.NamespaceAnalysis :
            i < j =>
                LET first == analysis.NamespaceAnalysis[i]
                    second == analysis.NamespaceAnalysis[j]
                IN \/ TierRank(first.RiskLevel) < TierRank(second.RiskLevel)
                   \/ /\ first.RiskLevel = second.RiskLevel
                      /\ PlaceOf(first.Namespace) < PlaceOf(second.Namespace)

\* The priorities of the returned critical issues, in order.
Priorities == [i \in DOMAIN analysis.CriticalIssues |-> analysis.CriticalIssues[i].Priority]

\* C8: the critical issues hold a priority-1 issue iff there are resource
\* gaps, a priority-2 issue iff there are OOM events, a priority-3 issue iff
\* there are node issues, nothing else, in ascending order of priority.
C8_IssuePerNonEmptyList ==
    Analyzed =>
        /\ (\E i \in DOMAIN Priorities : Priorities[i] = 1) <=> analysis.ResourceGaps # <<>>
        /\ (\E i \in DOMAIN Priorities : Priorities[i] = 2) <=> analysis.OOMEvents # <<>>
        /\ (\E i \in DOMAIN Priorities : Priorities[i] = 3) <=> analysis.NodeIssues # <<>>
        /\ \A i \in DOMAIN Priorities : Priorities[i] \in {1, 2, 3}
        /\ \A i, j \in DOMAIN Priorities : i < j => Priorities[i] < Priorities[j]

\* C8 witness: gaps, OOM events and node issues all exist, and the issues
\* have the priorities 1, 2, 3.
C8_Witness ==
    /\ Analyzed
    /\ analysis.ResourceGaps # <<>>
    /\ analysis.OOMEvents # <<>>
    /\ analysis.NodeIssues # <<>>
    /\ Priorities = <<1, 2, 3>>

\* The EventInfo of the events of a list.
InfosOf(events) == [i \in DOMAIN events |-> EventInfo(events[i])]

\* The API group of an apiVersion "group/version" ("" for the core group).
APIGroup(apiVersion) ==
    IF \E i \in DOMAIN apiVersion : apiVersion[i] = "/"
    THEN SubSeq(apiVersion, 1, (CHOOSE i \in DOMAIN apiVersion : apiVersion[i] = "/") - 1)
    ELSE <<>>

\* Flux-tagged, as claimed: the source component contains "flux"
\* (case-insensitive), or the kind is "Kustomization" or "HelmRelease"
\* (case-insensitive), or the API group contains "fluxcd".
FluxTaggedAsClaimed(event) ==
    \/ Contains(ToLower(event.Source.Component), S_flux)
    \/ ToLower(event.InvolvedObject.Kind) \in {S_kustomization, S_helmrelease}
    \/ Contains(APIGroup(event.InvolvedObject.APIVersion), S_fluxcd)

\* Flux-tagged, as amended: the kind only has to contain "kustomization" or
\* "helmrelease" (case-insensitive), and "fluxcd" is looked for in the whole
\* apiVersion (case-insensitive).
FluxTaggedAsAmended(event) ==
    \/ \E i \in 1..Len(event.Source.Component) - 3 :
          ToLower(SubSeq(event.Source.Component, i, i + 3)) = S_flux
    \/ \E word \in {S_kustomization, S_helmrelease} :
          \E i \in 1..Len(event.InvolvedObject.Kind) - Len(word) + 1 :
             ToLower(SubSeq(event.InvolvedObject.Kind, i, i + Len(word) - 1)) = word
    \/ \E i \in 1..Len(event.InvolvedObject.APIVersion) - 5 :
          ToLower(SubSeq(event.InvolvedObject.APIVersion, i, i + 5)) = S_fluxcd

\* last-seen strictly after now - hours
InWindow(event, now, hours) == event.LastTimestamp > now - hours

\* C9, as claimed: the Flux lists hold exactly the events of their window
\* that are Flux-tagged as claimed.
C9_FluxTaggedAsClaimed ==
    Analyzed =>
        /\ SameEntries(analysis.FluxEvents.Last24Hours,
              InfosOf(SelectSeq(data.Events,
                  LAMBDA e : FluxTaggedAsClaimed(e) /\ InWindow(e, nowRead.Flux, 24))))
        /\ SameEntries(analysis.FluxEvents.Last48Hours,
              InfosOf(SelectSeq(data.Events,
                  LAMBDA e : FluxTaggedAsClaimed(e) /\ InWindow(e, nowRead.Flux, 48))))

\* C9, amended: the Flux lists hold exactly the events of their window whose
\* source component contains "flux", whose kind contains "kustomization" or
\* "helmrelease", or whose apiVersion contains "fluxcd" (each
\* case-insensitive); the generic-warning lists hold none of these events.
C9_FluxTaggedBySubstring ==
    Analyzed =>
        /\ SameEntries(analysis.FluxEvents.Last24Hours,
              InfosOf(SelectSeq(data.Events,
                  LAMBDA e : FluxTaggedAsAmended(e) /\ InWindow(e, nowRead.Flux, 24))))
        /\ SameEntries(analysis.FluxEvents.Last48Hours,
              InfosOf(SelectSeq(data.Events,
                  LAMBDA e : FluxTaggedAsAmended(e) /\ InWindow(e, nowRead.Flux, 48))))
        /\ Len(analysis.NonFluxEvents.Last48Hours) =
              Len(SelectSeq(data.Events,
                  LAMBDA e : /\ ~FluxTaggedAsAmended(e)
                             /\ e.Type = "Warning"
                             /\ InWindow(e, nowRead.NonFlux, 48)))

\* C9 witness: a recent HelmRelease event with an empty source component
\* and a recent event whose kind has "HelmRelease" as a proper part are both
\* in the Flux list.
C9_Witness ==
    /\ Analyzed
    /\ \E i, j \in DOMAIN data.Events :
          /\ data.Events[i].InvolvedObject.Kind = S_HelmRelease
          /\ data.Events[i].Source.Component = <<>>
          /\ InWindow(data.Events[i], nowRead.Flux, 24)
          /\ data.Events[j].InvolvedObject.Kind = S_HelmReleaseList
          /\ InWindow(data.Events[j], nowRead.Flux, 24)
    /\ Len(analysis.FluxEvents.Last24Hours) = 2

\* C10: the generic-warning lists hold exactly the events of their window
\* that analyzeFluxEvents does not take for Flux events and that have the
\* type "Warning"; the Flux lists hold exactly the events of their window
\* that it does take for Flux events.  So no event is in a list of both.
C10_WarningsAreTheNonFluxWarnings ==
    Analyzed =>
        /\ SameEntries(analysis.NonFluxEvents.Last24Hours,
              InfosOf(SelectSeq(data.Events,
                  LAMBDA e : ~isFlux(e) /\ e.Type = "Warning" /\ InWindow(e, nowRead.NonFlux, 24))))
        /\ SameEntries(analysis.NonFluxEvents.Last48Hours,
              InfosOf(SelectSeq(data.Events,
                  LAMBDA e : ~isFlux(e) /\ e.Type = "Warning" /\ InWindow(e, nowRead.NonFlux, 48))))
        /\ SameEntries(analysis.FluxEvents.Last24Hours,
              InfosOf(SelectSeq(data.Events,
                  LAMBDA e : isFlux(e) /\ InWindow(e, nowRead.Flux, 24))))
        /\ SameEntries(analysis.FluxEvents.Last48Hours,
              InfosOf(SelectSeq(data.Events,
                  LAMBDA e : isFlux(e) /\ InWindow(e, nowRead.Flux, 48))))

\* C10 witness: of a recent non-Flux event of type Error and a recent event
\* found to be Flux by its kind alone, of type Warning, the first is in no
\* list and the second in the Flux lists only.
C10_Witness ==
    /\ Analyzed
    /\ \E i, j \in DOMAIN data.Events :
          /\ ~isFlux(data.Events[i])
          /\ data.Events[i].Type = "Error"
          /\ InWindow(data.Events[i], nowRead.Flux, 24)
          /\ data.Events[j].InvolvedObject.Kind = S_HelmReleaseList
          /\ data.Events[j].Type = "Warning"
          /\ InWindow(data.Events[j], nowRead.Flux, 24)
    /\ Len(analysis.FluxEvents.Last24Hours) = 1
    /\ analysis.NonFluxEvents.Last48Hours = <<>>

\* "OOMKilled" occurs in the reason or in the message of the event.
HasOOMKilled(event) ==
    \/ \E i \in 1..Len(event.Reason) - 8 : SubSeq(event.Reason, i, i + 8) = S_OOMKilled
    \/ \E i \in 1..Len(event.Message) - 8 : SubSeq(event.Message, i, i + 8) = S_OOMKilled

\* The record of the OOM stream for an event.
OOMRecordOf(event) ==
    [NodeName |-> event.Source.Host,
     PodName |-> event.InvolvedObject.Name,
     Namespace |-> event.InvolvedObject.Namespace,
     Container |-> event.InvolvedObject.FieldPath,
     Timestamp |-> event.LastTimestamp,
     Reason |-> event.Reason]

\* C11: the OOM stream holds exactly one record for every event with
\* "OOMKilled" in its reason or message, Flux-tagged or not and of any type,
\* and none for any other event; its length is the number of such events.
C11_OneRecordPerOOMKilledEvent ==
    Analyzed =>
        LET oom == SelectSeq(data.Events, HasOOMKilled)
        IN /\ SameEntries(analysis.OOMEvents, [i \in DOMAIN oom |-> OOMRecordOf(oom[i])])
           /\ Len(analysis.OOMEvents) =
                 Cardinality({i \in DOMAIN data.Events : HasOOMKilled(data.Events[i])})

\* C11 witness: of three events, one with "OOMKilled" in the message only,
\* one with it in the reason and Flux-tagged, and one with neither, the
\* stream holds the first two.
C11_Witness ==
    /\ Analyzed
    /\ Len(data.Events) = 3
    /\ \E i, j, k \in DOMAIN data.Events :
          /\ data.Events[i].Message = S_was_OOMKilled /\ data.Events[i].Reason = S_BackOff
          /\ data.Events[j].Reason = S_OOMKilled /\ isFlux(data.Events[j])
          /\ data.Events[k].Reason = S_OOMKilling
    /\ Len(analysis.OOMEvents) = 2

\* C12: each event stream has a 24h and a 48h list with exactly the events
\* of the stream last seen strictly after now - 24h and now - 48h; so no
\* list of a stream, the OOM stream's included, holds an event that was last
\* seen at or before now - 48h or that has no last-seen time.
C12_StreamsWindowed ==
    Analyzed =>
        /\ \A hours \in {24, 48} :
              LET flux == IF hours = 24 THEN analysis.FluxEvents.Last24Hours
                          ELSE analysis.FluxEvents.Last48Hours
                  generic == IF hours = 24 THEN analysis.NonFluxEvents.Last24Hours
                             ELSE analysis.NonFluxEvents.Last48Hours
              IN /\ SameEntries(flux,
                       InfosOf(SelectSeq(data.Events,
                           LAMBDA e : isFlux(e) /\ InWindow(e, nowRead.Flux, hours))))
                 /\ SameEntries(generic,
                       InfosOf(SelectSeq(data.Events,
                           LAMBDA e : /\ ~isFlux(e) /\ e.Type = "Warning"
                                      /\ InWindow(e, nowRead.NonFlux, hours))))
        /\ \A i \in DOMAIN analysis.OOMEvents :
              analysis.OOMEvents[i].Timestamp > clock - 48

\* The container statuses of the snapshot, as <<pod, status>> places.
StatusPlaces ==
    UNION {{<<p, s>> : s \in DOMAIN data.Pods[p].Status.ContainerStatuses} :
              p \in DOMAIN data.Pods}

StatusAt(place) == data.Pods[place[1]].Status.ContainerStatuses[place[2]]

\* The places of `list` with the record of the container status at `place`.
RestartRecordsOf(list, place) ==
    {i \in DOMAIN list :
        /\ list[i].Namespace = data.Pods[place[1]].Namespace
        /\ list[i].PodName = data.Pods[place[1]].Name
        /\ list[i].ContainerName = StatusAt(place).Name}

\* lastRestartTime and reason as claimed: of the last termination state if
\* there is one, else of the current terminated state if there is one, else
\* the pod start time and "Unknown".
ClaimedRestart(place) ==
    LET pod == data.Pods[place[1]]
        status == StatusAt(place)
    IN IF ~status.LastTerminationState.Terminated.isNil
       THEN [time |-> status.LastTerminationState.Terminated.value.FinishedAt,
             reason |-> status.LastTerminationState.Terminated.value.Reason]
       ELSE IF ~status.State.Terminated.isNil
       THEN [time |-> status.State.Terminated.value.FinishedAt,
             reason |-> status.State.Terminated.value.Reason]
       ELSE [time |-> IF pod.Status.StartTime.isNil THEN 0 ELSE pod.Status.StartTime.value,
             reason |-> "Unknown"]

\* The same, an empty reason of a termination state read as "Unknown".
AmendedRestart(place) ==
    [ClaimedRestart(place) EXCEPT
        !.reason = IF ClaimedRestart(place).reason = "" THEN "Unknown"
                   ELSE ClaimedRestart(place).reason]

\* A restart time inside the window of that many hours.
RestartInWindow(time, hours) == time # 0 /\ time > nowRead.Restarts - hours

\* C13, as claimed: a container status with restartCount > 0 has exactly one
\* PodRestart record, seen in every list whose window holds its time, with
\* the time and the reason of the claimed precedence; a container status
\* with restartCount = 0 has none.
C13_RestartByPrecedence ==
    Analyzed =>
        \A place \in StatusPlaces :
            LET in7d == RestartRecordsOf(analysis.PodRestarts.Last7Days, place)
                in24h == RestartRecordsOf(analysis.PodRestarts.Last24Hours, place)
                claimed == ClaimedRestart(place)
            IN IF StatusAt(place).RestartCount > 0
               THEN /\ Cardinality(in7d) = IF RestartInWindow(claimed.time, 168) THEN 1 ELSE 0
                    /\ Cardinality(in24h) = IF RestartInWindow(claimed.time, 24) THEN 1 ELSE 0
                    /\ \A i \in in7d :
                          /\ analysis.PodRestarts.Last7Days[i].LastRestartTime = claimed.time
                          /\ analysis.PodRestarts.Last7Days[i].Reason = claimed.reason
                          /\ analysis.PodRestarts.Last7Days[i].RestartCount = StatusAt(place).RestartCount
               ELSE in7d = {} /\ in24h = {}

\* C13, amended: the same, with the reason "Unknown" when the termination
\* state that decides has an empty reason.
C13_RestartByPrecedenceUnknownIfEmpty ==
    Analyzed =>
        \A place \in StatusPlaces :
            LET in7d == RestartRecordsOf(analysis.PodRestarts.Last7Days, place)
                in24h == RestartRecordsOf(analysis.PodRestarts.Last24Hours, place)
                amended == AmendedRestart(place)
            IN IF StatusAt(place).RestartCount > 0
               THEN /\ Cardinality(in7d) = IF RestartInWindow(amended.time, 168) THEN 1 ELSE 0
                    /\ Cardinality(in24h) = IF RestartInWindow(amended.time, 24) THEN 1 ELSE 0
                    /\ \A i \in in7d :
                          /\ analysis.PodRestarts.Last7Days[i].LastRestartTime = amended.time
                          /\ analysis.PodRestarts.Last7Days[i].Reason = amended.reason
                          /\ analysis.PodRestarts.Last7Days[i].RestartCount = StatusAt(place).RestartCount
                    /\ \A i \in in24h :
                          /\ analysis.PodRestarts.Last24Hours[i].LastRestartTime = amended.time
                          /\ analysis.PodRestarts.Last24Hours[i].Reason = amended.reason
               ELSE in7d = {} /\ in24h = {}

\* C13 witness: a restarted container with a last termination state without
\* a reason, a later current terminated state and a pod start time is
\* reported with the time of the last termination state and "Unknown".
C13_Witness ==
    /\ Analyzed
    /\ \E place \in StatusPlaces :
          /\ StatusAt(place).RestartCount > 0
          /\ ~StatusAt(place).LastTerminationState.Terminated.isNil
          /\ ~StatusAt(place).State.Terminated.isNil
          /\ ~data.Pods[place[1]].Status.StartTime.isNil
          /\ StatusAt(place).LastTerminationState.Terminated.value.Reason = ""
          /\ \E i \in RestartRecordsOf(analysis.PodRestarts.Last7Days, place) :
                /\ analysis.PodRestarts.Last7Days[i].LastRestartTime =
                      StatusAt(place).LastTerminationState.Terminated.value.FinishedAt
                /\ analysis.PodRestarts.Last7Days[i].LastRestartTime #
                      StatusAt(place).State.Terminated.value.FinishedAt
                /\ analysis.PodRestarts.Last7Days[i].Reason = "Unknown"

\* The PodRestart records of the snapshot whose time lies inside the window
\* of that many hours, in the order of the snapshot.
RECURSIVE RestartsOfPlaces(_, _)
RestartsOfPlaces(places, hours) ==
    IF places = {} THEN <<>>
    ELSE LET place == CHOOSE x \in places : \A y \in places :
                          x[1] < y[1] \/ (x[1] = y[1] /\ x[2] <= y[2])
             restart == AmendedRestart(place)
         IN (IF StatusAt(place).RestartCount > 0 /\ RestartInWindow(restart.time, hours)
             THEN <<[Namespace |-> data.Pods[place[1]].Namespace,
                     PodName |-> data.Pods[place[1]].Name,
                     ContainerName |-> StatusAt(place).Name,
                     RestartCount |-> StatusAt(place).RestartCount,
                     LastRestartTime |-> restart.time,
                     Reason |-> restart.reason]>>
             ELSE <<>>)
            \o RestartsOfPlaces(places \ {place}, hours)

\* The lists of restart records of the analysis.
RestartLists == {analysis.PodRestarts[f] : f \in {"Last24Hours", "Last7Days"}}

\* C14: there are three lists of restart records, for 24h, 48h and 7d, each
\* with exactly the records whose time is not zero and strictly after now
\* minus the window; a restarted container without termination state and
\* pod start time has the reason "Unknown" and is in none.
C14_ThreeRestartWindows ==
    Analyzed =>
        /\ SameEntries(analysis.PodRestarts.Last24Hours, RestartsOfPlaces(StatusPlaces, 24))
        /\ \E list \in RestartLists : SameEntries(list, RestartsOfPlaces(StatusPlaces, 48))
        /\ SameEntries(analysis.PodRestarts.Last7Days, RestartsOfPlaces(StatusPlaces, 168))
        /\ \A place \in StatusPlaces :
              (/\ StatusAt(place).RestartCount > 0
               /\ StatusAt(place).LastTerminationState.Terminated.isNil
               /\ StatusAt(place).State.Terminated.isNil
               /\ data.Pods[place[1]].Status.StartTime.isNil)
              => \A list \in RestartLists : RestartRecordsOf(list, place) = {}

\* The RFC3339 timestamps of the sampled backups with their time, in seconds
\* since 0001-01-01T00:00:00Z.
KnownStamps ==
    {<<Stamp_2h_ago, 3592800>>,
     <<Stamp_1h_ago, 3596400>>,
     <<Stamp_2h_ago_offset, 3592800>>,
     <<Stamp_24h_ago, 3513600>>,
     <<Stamp_just_under_24h_ago, 3513601>>,
     <<Stamp_30h_ago, 3492000>>,
     <<Stamp_48h_ago, 3427200>>,
     <<Stamp_72h_ago, 3340800>>}

\* The start time of a backup with a status map whose startTimestamp is one
\* of these timestamps; no other backup has one.
HasKnownStart(backup) ==
    /\ "status" \in DOMAIN backup.Object
    /\ backup.Object.status.type = "map"
    /\ "startTimestamp" \in DOMAIN backup.Object.status.fields
    /\ backup.Object.status.fields.startTimestamp.type = "string"
    /\ \E k \in KnownStamps : k[1] = backup.Object.status.fields.startTimestamp.chars

KnownStart(backup) ==
    (CHOOSE k \in KnownStamps : k[1] = backup.Object.status.fields.startTimestamp.chars)[2]

\* The phase of a backup with a status map, "" without one.
PhaseOf(backup) ==
    IF "phase" \in DOMAIN backup.Object.status.fields
    THEN backup.Object.status.fields.phase.chars ELSE <<>>

\* The records of `list` with the name of the backup.
BackupRecordsOf(list, backup) == {i \in DOMAIN list : list[i].Name = backup.Name}

\* now - hours, in seconds.
SecondsBefore(now, hours) == (now - hours) * 3600

\* C15: a backup without a status map or without a start timestamp that
\* parses as RFC3339 is in no list and counted by no counter, and every
\* other backup, before or after it in the input, is processed: it is in
\* the 48h list iff it started in the last 48h, and the counters count the
\* backups of the lists.
C15_MalformedBackupsDropped ==
    Analyzed =>
        /\ \A i \in DOMAIN data.VeleroBackups :
              LET backup == data.VeleroBackups[i]
                  in48h == BackupRecordsOf(analysis.VeleroBackups.Last48Hours, backup)
                  in24h == BackupRecordsOf(analysis.VeleroBackups.Last24Hours, backup)
              IN IF HasKnownStart(backup)
                 THEN Cardinality(in48h) =
                         IF KnownStart(backup) > SecondsBefore(nowRead.Velero, 48) THEN 1 ELSE 0
                 ELSE in48h = {} /\ in24h = {}
        /\ analysis.VeleroBackups.TotalBackups48h =
              Cardinality({i \in DOMAIN data.VeleroBackups :
                  /\ HasKnownStart(data.VeleroBackups[i])
                  /\ KnownStart(data.VeleroBackups[i]) > SecondsBefore(nowRead.Velero, 48)})
        /\ analysis.VeleroBackups.TotalBackups24h =
              Cardinality({i \in DOMAIN data.VeleroBackups :
                  /\ HasKnownStart(data.VeleroBackups[i])
                  /\ KnownStart(data.VeleroBackups[i]) > SecondsBefore(nowRead.Velero, 24)})
        /\ analysis.VeleroBackups.FailedBackups48h <= analysis.VeleroBackups.TotalBackups48h
        /\ analysis.VeleroBackups.FailedBackups24h <= analysis.VeleroBackups.TotalBackups24h

\* C15 witness: of two backups, the first with a start timestamp that is no
\* RFC3339 timestamp and the second started two hours ago, the second is in
\* both lists and the first in none.
C15_Witness ==
    /\ Analyzed
    /\ Len(data.VeleroBackups) = 2
    /\ "status" \in DOMAIN data.VeleroBackups[1].Object
    /\ data.VeleroBackups[1].Object.status.type = "map"
    /\ "startTimestamp" \in DOMAIN data.VeleroBackups[1].Object.status.fields
    /\ data.VeleroBackups[1].Object.status.fields.startTimestamp = StringValue(Stamp_february_30)
    /\ HasKnownStart(data.VeleroBackups[2])
    /\ Len(analysis.VeleroBackups.Last24Hours) = 1
    /\ analysis.VeleroBackups.Last24Hours[1].Name = data.VeleroBackups[2].Name
    /\ analysis.VeleroBackups.TotalBackups48h = 1

\* The number of records of `list` with the phase Failed or PartiallyFailed.
FailuresIn(list) ==
    Cardinality({i \in DOMAIN list : list[i].Status \in {S_Failed, S_PartiallyFailed}})

\* C16: a backup with a start time is in the 48h list iff it started
\* strictly after now - 48h, and then also in the 24h list iff it started
\* strictly after now - 24h, with its phase and start time; the failure
\* counter of each window is the number of backups of its list with the phase
\* Failed or PartiallyFailed.
C16_BackupWindowsAndFailures ==
    Analyzed =>
        /\ \A i \in DOMAIN data.VeleroBackups :
              LET backup == data.VeleroBackups[i]
                  in48h == BackupRecordsOf(analysis.VeleroBackups.Last48Hours, backup)
                  in24h == BackupRecordsOf(analysis.VeleroBackups.Last24Hours, backup)
              IN HasKnownStart(backup) =>
                    /\ Cardinality(in48h) =
                          IF KnownStart(backup) > SecondsBefore(nowRead.Velero, 48) THEN 1 ELSE 0
                    /\ Cardinality(in24h) =
                          IF KnownStart(backup) > SecondsBefore(nowRead.Velero, 24) THEN 1 ELSE 0
                    /\ in24h # {} => in48h # {}
                    /\ \A j \in in48h :
                          /\ analysis.VeleroBackups.Last48Hours[j].StartTime = KnownStart(backup)
                          /\ analysis.VeleroBackups.Last48Hours[j].Status = PhaseOf(backup)
                    /\ \A j \in in24h :
                          /\ analysis.VeleroBackups.Last24Hours[j].StartTime = KnownStart(backup)
                          /\ analysis.VeleroBackups.Last24Hours[j].Status = PhaseOf(backup)
        /\ analysis.VeleroBackups.FailedBackups24h = FailuresIn(analysis.VeleroBackups.Last24Hours)
        /\ analysis.VeleroBackups.FailedBackups48h = FailuresIn(analysis.VeleroBackups.Last48Hours)
        /\ analysis.VeleroBackups.FailedBackups24h =
              Cardinality({i \in DOMAIN data.VeleroBackups :
                  /\ HasKnownStart(data.VeleroBackups[i])
                  /\ KnownStart(data.VeleroBackups[i]) > SecondsBefore(nowRead.Velero, 24)
                  /\ PhaseOf(data.VeleroBackups[i]) \in {S_Failed, S_PartiallyFailed}})
        /\ analysis.VeleroBackups.FailedBackups48h =
              Cardinality({i \in DOMAIN data.VeleroBackups :
                  /\ HasKnownStart(data.VeleroBackups[i])
                  /\ KnownStart(data.VeleroBackups[i]) > SecondsBefore(nowRead.Velero, 48)
                  /\ PhaseOf(data.VeleroBackups[i]) \in {S_Failed, S_PartiallyFailed}})

\* C16 witness: one backup with the phase Failed started two hours ago is in
\* both lists and both failure counters are 1.
C16_Witness ==
    /\ Analyzed
    /\ Len(data.VeleroBackups) = 1
    /\ HasKnownStart(data.VeleroBackups[1])
    /\ KnownStart(data.VeleroBackups[1]) = SecondsBefore(nowRead.Velero, 2)
    /\ PhaseOf(data.VeleroBackups[1]) = S_Failed
    /\ Len(analysis.VeleroBackups.Last24Hours) = 1
    /\ Len(analysis.VeleroBackups.Last48Hours) = 1
    /\ analysis.VeleroBackups.FailedBackups24h = 1
    /\ analysis.VeleroBackups.FailedBackups48h = 1

\* The name contains "rabbit" in any mix of upper and lower case.
NamedLikeRabbit(name) ==
    \E i \in 1..Len(name) - 5 : ToLower(SubSeq(name, i, i + 5)) = S_rabbit

\* The pods of the snapshot the workload specializer matches, as claimed.
MatchedPods == {i \in DOMAIN data.Pods : NamedLikeRabbit(data.Pods[i].Name)}

\* The container has a memory limit other than zero.
HasNonZeroMemoryLimit(container) ==
    \E item \in container.Resources.Limits.items : item[1] = "memory" /\ item[2] # 0

\* C17: the summary lists exactly the pods whose name contains "rabbit" in
\* any case, in the order of the snapshot; hasPriorityClass is true iff a
\* matched pod has a priority-class name, hasResourceLimits iff a container
\* of a matched pod has a non-zero memory limit.
C17_RabbitSummary ==
    Analyzed =>
        LET matched == SelectSeq(data.Pods, LAMBDA pod : NamedLikeRabbit(pod.Name))
        IN /\ analysis.RabbitMQFindings.RabbitMQPods =
                 [i \in DOMAIN matched |-> matched[i].Namespace \o <<"/">> \o matched[i].Name]
           /\ analysis.RabbitMQFindings.HasPriorityClass <=>
                 \E i \in MatchedPods : data.Pods[i].Spec.PriorityClassName # ""
           /\ analysis.RabbitMQFindings.HasResourceLimits <=>
                 \E i \in MatchedPods : \E c \in DOMAIN data.Pods[i].Spec.Containers :
                    HasNonZeroMemoryLimit(data.Pods[i].Spec.Containers[c])

\* C17 witness: of a pod named "RabbitMQ-1" without priority class and
\* memory limit and a pod named "web-1" with both, only the first is listed
\* and both flags are false.
C17_Witness ==
    /\ Analyzed
    /\ Len(data.Pods) = 2
    /\ \E i, j \in DOMAIN data.Pods :
          /\ data.Pods[i].Name = S_RabbitMQ_1
          /\ data.Pods[i].Spec.PriorityClassName = ""
          /\ \A c \in DOMAIN data.Pods[i].Spec.Containers :
                ~HasNonZeroMemoryLimit(data.Pods[i].Spec.Containers[c])
          /\ data.Pods[j].Name = S_web_1
          /\ data.Pods[j].Spec.PriorityClassName # ""
          /\ \E c \in DOMAIN data.Pods[j].Spec.Containers :
                HasNonZeroMemoryLimit(data.Pods[j].Spec.Containers[c])
    /\ Len(analysis.RabbitMQFindings.RabbitMQPods) = 1
    /\ ~analysis.RabbitMQFindings.HasPriorityClass
    /\ ~analysis.RabbitMQFindings.HasResourceLimits

\* The records of the OOM stream of a matched pod in the last 7 days.
RecentRabbitOOMs ==
    {i \in DOMAIN analysis.OOMEvents :
        /\ \E p \in MatchedPods :
              /\ data.Pods[p].Name = analysis.OOMEvents[i].PodName
              /\ data.Pods[p].Namespace = analysis.OOMEvents[i].Namespace
        /\ analysis.OOMEvents[i].Timestamp > clock - 7 * 24}

\* C18: the summary has, next to the list of pods, the two flags and the
\* recommendations, a recentOOMCount with the number of these records.
C18_SummaryCarriesRecentOOMCount ==
    Analyzed =>
        \E field \in DOMAIN analysis.RabbitMQFindings \
                      {"RabbitMQPods", "HasPriorityClass", "HasResourceLimits", "Recommendations"} :
            analysis.RabbitMQFindings[field] = Cardinality(RecentRabbitOOMs)

\* C19: all runs of AnalyzeCluster on one snapshot, started at one time,
\* produce the same findings, every list in the same order.
C19_RunsAgree ==
    pc = "collected" =>
        \A r1, r2 \in Runs(data, clock, clockEnd) : r1.analysis = r2.analysis

\* The findings without the AI insights, the snapshot without the AI
\* suggestions.
WithoutInsights(a) == [a EXCEPT !.AIInsights = Nil]
WithoutSuggestions(d) == [d EXCEPT !.AISuggestions = [isNil |-> TRUE, items |-> {}]]

\* The AI steps are the steps of main between AnalyzeCluster and the report.
InAISteps == pc \in {"analyzed", "insights", "suggesting"}

\* The namespaces with an entry in data.AISuggestions.
SuggestedNamespaces == {entry[1] : entry \in data.AISuggestions.items}

\* The namespaces for which a failed SuggestResourceLimits was logged.
FailedNamespaces ==
    {w.namespace : w \in {v \in ai.warnings : v.call = "SuggestResourceLimits"}}

RequiredListed ==
    ~api.pods.err /\ ~api.nodes.err /\ ~api.events.err /\ ~api.namespaces.err

\* C21: once CollectClusterData has returned, there is a snapshot iff the
\* four required listings succeeded; the snapshot holds what they returned,
\* no backups unless the backup listing returned a list and no usage samples
\* unless the metrics listing succeeded; without a snapshot main has ended:
\* nothing is analyzed or reported and no step follows.
C21_CollectFailsOnlyOnRequired ==
    /\ [](pc # "start" =>
            /\ RequiredListed <=> pc # "collect-failed"
            /\ RequiredListed =>
                 /\ data.Pods = api.pods.items
                 /\ data.Nodes = api.nodes.items
                 /\ data.Events = api.events.items
                 /\ data.Namespaces = api.namespaces.items
                 /\ (api.backups.err \/ api.backups.items.isNil) => data.VeleroBackups = <<>>
                 /\ api.metrics.err => data.PodMetrics = {}
            /\ ~RequiredListed =>
                 data = Nil /\ analysis = NewAnalysis /\ report = Nil)
    /\ [][pc # "collect-failed"]_vars

\* C21 witness: the report is written from a snapshot with a pod and without
\* backups and usage samples, the listings of backups and metrics having
\* failed.
C21_Witness ==
    /\ pc = "written"
    /\ api.backups.err
    /\ api.metrics.err
    /\ data.Pods # <<>>
    /\ data.VeleroBackups = <<>>
    /\ data.PodMetrics = {}

\* The detectors that read the clock, and the ones that do not.
ClockedDetectors == {"PodRestarts", "FluxEvents", "NonFluxEvents", "VeleroBackups"}

\* The findings AnalyzeCluster can return on the snapshot in its own order,
\* reading the clock between the start and the end of the run.
SequentialFindings ==
    {run.analysis : run \in Runs(data, CHOOSE c \in ClockSamples : TRUE, clockEnd)}

\* C22: whatever the order in which the detectors have returned, each has
\* written only its own field, the fields of the detectors that have not
\* returned are untouched, and every field written is one the detector
\* returns in the sequential order of AnalyzeCluster on this snapshot; the
\* findings of the detectors that read no clock are, taken together, those
\* of a sequential run, and so is what the synthesizer makes of them.
C22_DetectorsAreIndependent ==
    pc \in {"detecting", "analyzed"} =>
        LET sequential == SequentialFindings
        IN /\ \A name \in Detectors \ done : analysis[name] = NewAnalysis[name]
           /\ \A name \in done : \E a \in sequential : analysis[name] = a[name]
           /\ \E a \in sequential :
                 \A name \in done \ ClockedDetectors : analysis[name] = a[name]
           /\ pc = "detecting" =>
                 /\ analysis.ClusterHealth = NewAnalysis.ClusterHealth
                 /\ analysis.CriticalIssues = NewAnalysis.CriticalIssues
           /\ pc = "analyzed" =>
                 \E a \in sequential :
                    /\ analysis.ClusterHealth = a.ClusterHealth
                    /\ analysis.CriticalIssues = a.CriticalIssues

\* C22 witness: all detectors have returned and the synthesizer has run; the
\* detector of the generic warnings returned before the one of the Flux
\* events, which read the clock an hour later and so lost the event at the
\* edge of its 24h window.
C22_Witness ==
    /\ pc = "analyzed"
    /\ done = Detectors
    /\ Len(analysis.NonFluxEvents.Last24Hours) = Len(analysis.NonFluxEvents.Last48Hours)
    /\ analysis.NonFluxEvents.Last24Hours # <<>>
    /\ Len(analysis.FluxEvents.Last24Hours) < Len(analysis.FluxEvents.Last48Hours)
    /\ analysis.ResourceGaps # <<>>
    /\ analysis.CriticalIssues # <<>>

(***************************************************************************)
(* The appendix of the report.                                             *)
(***************************************************************************)
\* The table of the report that was written, and the snapshot it was
\* rendered from.
Rendered == pc \in {"written", "fatal"}
RenderedRows == report.value.Appendix.Rows

\* The running containers of the snapshot a row stands for, as pairs of a
\* pod and a container.
ContainersOfRow(row) ==
    {<<pod, container>> \in
        UNION {{<<report.value.Data.Pods[i], report.value.Data.Pods[i].Spec.Containers[c]>> :
                   c \in DOMAIN report.value.Data.Pods[i].Spec.Containers} :
               i \in DOMAIN report.value.Data.Pods} :
        /\ pod.Status.Phase = "Running"
        /\ pod.Namespace = row.Namespace
        /\ pod.Name = row.PodName
        /\ container.Name = row.ContainerName}

\* The suggestions the map of the row's namespace holds under the row's key.
SuggestionsOfRow(row) ==
    {entry[2] : entry \in
        {e \in NamespaceSuggestions(report.value.Data, row.Namespace) :
            e[1] = SuggestionKey(row.PodName, <<row.ContainerName>>)}}

\* A cell shows the configured value, or a suggested value that is neither
\* "KEEP" nor empty.
CellKeeps(cell, configured, suggestions) ==
    IF cell.suggested
    THEN \E text \in suggestions : text = cell.text /\ text # <<"KEEP">> /\ text # <<>>
    ELSE cell.configured = configured

RowKeeps(row, container, suggestions) ==
    /\ CellKeeps(row.cpuReq, QuantityOf(container.Resources.Requests, "cpu"),
                 {suggestion.CPURequest : suggestion \in suggestions})
    /\ CellKeeps(row.cpuLim, QuantityOf(container.Resources.Limits, "cpu"),
                 {suggestion.CPULimit : suggestion \in suggestions})
    /\ CellKeeps(row.memReq, QuantityOf(container.Resources.Requests, "memory"),
                 {suggestion.MemoryRequest : suggestion \in suggestions})
    /\ CellKeeps(row.memLim, QuantityOf(container.Resources.Limits, "memory"),
                 {suggestion.MemoryLimit : suggestion \in suggestions})

\* C23: in the table of the appendix a value of a container is replaced by
\* the suggested one only if the suggestion's field is neither "KEEP" nor
\* empty; otherwise, and for a container without a suggestion, the
\* configured value is shown.
C23_KeepNeverOverrides ==
    Rendered =>
        \A r \in DOMAIN RenderedRows :
            \E place \in ContainersOfRow(RenderedRows[r]) :
                RowKeeps(RenderedRows[r], place[2], SuggestionsOfRow(RenderedRows[r]))

\* C23 witness: the report is written with a row whose suggestion holds
\* "KEEP" for the CPU request and an empty memory request: both are shown
\* as not set, next to a CPU limit that is the suggested one; another row
\* has values that are not set and no suggestion.
C23_Witness ==
    /\ pc = "written"
    /\ \E r, q \in DOMAIN RenderedRows :
          /\ \E suggestion \in SuggestionsOfRow(RenderedRows[r]) :
                /\ suggestion.CPURequest = <<"KEEP">>
                /\ suggestion.MemoryRequest = <<>>
                /\ RenderedRows[r].cpuLim = Suggested(suggestion.CPULimit)
          /\ RenderedRows[r].cpuReq = Configured(NotSet)
          /\ RenderedRows[r].memReq = Configured(NotSet)
          /\ SuggestionsOfRow(RenderedRows[q]) = {}
          /\ RenderedRows[q].cpuReq = Configured(NotSet)

(***************************************************************************)
(* The resource gaps, value by value.                                      *)
(***************************************************************************)
\* One of the CPU and the memory quantity of the map is absent or zero.
SomeValueMissing(rl) == rl.isNil \/ IsZero(Cpu(rl)) \/ IsZero(Memory(rl))

\* C24: a container has a gap record iff at least one of its four values
\* (CPU request, memory request, CPU limit, memory limit) is absent or zero.
C24_GapIffAnyValueMissing ==
    Analyzed =>
        \A p \in DOMAIN data.Pods : \A c \in DOMAIN data.Pods[p].Spec.Containers :
            GapRecordsOf(p, c) # {}
                <=> \/ SomeValueMissing(data.Pods[p].Spec.Containers[c].Resources.Requests)
                    \/ SomeValueMissing(data.Pods[p].Spec.Containers[c].Resources.Limits)

(***************************************************************************)
(* The lists of records and their counters.                                *)
(***************************************************************************)
\* The values of the field `key` of the entries of the list, in order.
KeysOf(list, key) == [i \in DOMAIN list |-> list[i][key]]

\* No key is followed by a greater one.
Descending(keys) == \A i \in 1..Len(keys) - 1 : keys[i] >= keys[i + 1]

\* The last timestamps of the OOM events of the snapshot, in its order.
OOMTimestampsListed ==
    KeysOf(SelectSeq(data.Events, IsOOMEvent), "LastTimestamp")

\* C25: the OOM list is in descending order of the timestamp, the window
\* lists of the Flux events and of the generic warnings of the last time,
\* those of the backups of the start time and those of the restarts of the
\* restart count; OOM events listed one, three and two hours old come out
\* one, two and three hours old.
C25_ListsDescending ==
    Analyzed =>
        /\ Descending(KeysOf(analysis.OOMEvents, "Timestamp"))
        /\ Descending(KeysOf(analysis.FluxEvents.Last24Hours, "LastTime"))
        /\ Descending(KeysOf(analysis.FluxEvents.Last48Hours, "LastTime"))
        /\ Descending(KeysOf(analysis.NonFluxEvents.Last24Hours, "LastTime"))
        /\ Descending(KeysOf(analysis.NonFluxEvents.Last48Hours, "LastTime"))
        /\ Descending(KeysOf(analysis.VeleroBackups.Last24Hours, "StartTime"))
        /\ Descending(KeysOf(analysis.VeleroBackups.Last48Hours, "StartTime"))
        /\ Descending(KeysOf(analysis.PodRestarts.Last24Hours, "RestartCount"))
        /\ Descending(KeysOf(analysis.PodRestarts.Last7Days, "RestartCount"))
        /\ \A T \in ClockSamples :
              OOMTimestampsListed = <<T - 1, T - 3, T - 2>>
                  => KeysOf(analysis.OOMEvents, "Timestamp") = <<T - 1, T - 2, T - 3>>

\* C25 witness: the findings of a snapshot whose OOM events are one, three
\* and two hours old, whose Flux events, generic warnings and backups are
\* listed oldest first and whose restarts are listed lowest count first; no
\* list of the findings has fewer than two entries.
C25_Witness ==
    /\ Analyzed
    /\ \E T \in ClockSamples : OOMTimestampsListed = <<T - 1, T - 3, T - 2>>
    /\ Len(analysis.OOMEvents) = 3
    /\ Len(analysis.FluxEvents.Last24Hours) >= 2
    /\ Len(analysis.NonFluxEvents.Last48Hours) > Len(analysis.NonFluxEvents.Last24Hours)
    /\ Len(analysis.NonFluxEvents.Last24Hours) >= 2
    /\ Len(analysis.VeleroBackups.Last24Hours) >= 2
    /\ Len(analysis.VeleroBackups.Last48Hours) = 3
    /\ KeysOf(analysis.PodRestarts.Last24Hours, "RestartCount") = <<7, 1>>
    /\ KeysOf(analysis.PodRestarts.Last7Days, "RestartCount") = <<7, 3, 1>>

\* The number of entries of the list with the given type.
EntriesOfType(list, type) == Cardinality({i \in DOMAIN list : list[i].Type = type})

\* C26: the counters of a window agree with its list: the Flux counters of
\* warnings and errors are the numbers of entries of these types (entries of
\* type Normal are in neither), the counter of the generic warnings and the
\* total of the backups are the length of the list, and no more backups
\* failed than there are.
C26_CountersAgreeWithLists ==
    Analyzed =>
        /\ analysis.FluxEvents.Warnings24h
              = EntriesOfType(analysis.FluxEvents.Last24Hours, "Warning")
        /\ analysis.FluxEvents.Warnings48h
              = EntriesOfType(analysis.FluxEvents.Last48Hours, "Warning")
        /\ analysis.FluxEvents.Errors24h
              = EntriesOfType(analysis.FluxEvents.Last24Hours, "Error")
        /\ analysis.FluxEvents.Errors48h
              = EntriesOfType(analysis.FluxEvents.Last48Hours, "Error")
        /\ analysis.NonFluxEvents.Warnings24h = Len(analysis.NonFluxEvents.Last24Hours)
        /\ analysis.NonFluxEvents.Warnings48h = Len(analysis.NonFluxEvents.Last48Hours)
        /\ analysis.VeleroBackups.TotalBackups24h = Len(analysis.VeleroBackups.Last24Hours)
        /\ analysis.VeleroBackups.TotalBackups48h = Len(analysis.VeleroBackups.Last48Hours)
        /\ analysis.VeleroBackups.FailedBackups24h <= analysis.VeleroBackups.TotalBackups24h
        /\ analysis.VeleroBackups.FailedBackups48h <= analysis.VeleroBackups.TotalBackups48h

\* C26 witness: findings whose Flux list of 48 hours holds a warning, an
\* error and an entry of type Normal and whose list of 24 hours holds no
\* warning; with four generic warnings, and three backups of which two
\* failed.
C26_Witness ==
    /\ Analyzed
    /\ Len(analysis.FluxEvents.Last48Hours) = 3
    /\ EntriesOfType(analysis.FluxEvents.Last48Hours, "Normal") = 1
    /\ analysis.FluxEvents.Warnings48h = 1
    /\ analysis.FluxEvents.Errors48h = 1
    /\ analysis.FluxEvents.Warnings24h = 0
    /\ Len(analysis.FluxEvents.Last24Hours) = 2
    /\ analysis.NonFluxEvents.Warnings48h = 4
    /\ analysis.NonFluxEvents.Warnings24h = 3
    /\ analysis.VeleroBackups.TotalBackups48h = 3
    /\ analysis.VeleroBackups.FailedBackups48h = 2

\* The (namespace, pod) pairs of the restart records of the list.
PodsRestarted(list) == {<<list[i].Namespace, list[i].PodName>> : i \in DOMAIN list}

\* C27: the count of the pods of a restart window is the number of distinct
\* (namespace, pod) pairs of its records, and at most the length of its
\* list.
C27_UniquePodsPerWindow ==
    Analyzed =>
        /\ analysis.PodRestarts.TotalPods24h
              = Cardinality(PodsRestarted(analysis.PodRestarts.Last24Hours))
        /\ analysis.PodRestarts.TotalPods7d
              = Cardinality(PodsRestarted(analysis.PodRestarts.Last7Days))
        /\ analysis.PodRestarts.TotalPods24h <= Len(analysis.PodRestarts.Last24Hours)
        /\ analysis.PodRestarts.TotalPods7d <= Len(analysis.PodRestarts.Last7Days)

\* C27 witness: two containers of one pod restarted in both windows and a
\* pod of the same name in another namespace restarted in the window of 7
\* days: one pod of two records, and two pods of three.
C27_Witness ==
    /\ Analyzed
    /\ Len(analysis.PodRestarts.Last24Hours) = 2
    /\ analysis.PodRestarts.TotalPods24h = 1
    /\ Len(analysis.PodRestarts.Last7Days) = 3
    /\ analysis.PodRestarts.TotalPods7d = 2
    /\ \A i, j \in DOMAIN analysis.PodRestarts.Last7Days :
          analysis.PodRestarts.Last7Days[i].PodName = analysis.PodRestarts.Last7Days[j].PodName
    /\ \E i, j \in DOMAIN analysis.PodRestarts.Last7Days :
          analysis.PodRestarts.Last7Days[i].Namespace # analysis.PodRestarts.Last7Days[j].Namespace

(***************************************************************************)
(* The critical issues and the health.                                     *)
(***************************************************************************)
\* The returned issues with a priority of at most 2.
UrgentIssues == {i \in DOMAIN analysis.CriticalIssues : analysis.CriticalIssues[i].Priority <= 2}

\* C28: at most 3 critical issues are returned, with distinct priorities
\* from 1 to 3, so at most 2 have a priority of at most 2: never more than 3
\* do, and the health is "critical" only with more than 10 OOM events.
C28_AtMostThreeIssues ==
    Analyzed =>
        /\ Len(analysis.CriticalIssues) <= 3
        /\ \A i \in DOMAIN analysis.CriticalIssues :
              analysis.CriticalIssues[i].Priority \in {1, 2, 3}
        /\ \A i, j \in DOMAIN analysis.CriticalIssues :
              i # j => analysis.CriticalIssues[i].Priority # analysis.CriticalIssues[j].Priority
        /\ Cardinality(UrgentIssues) <= 2
        /\ ~(Cardinality(UrgentIssues) > 3)
        /\ analysis.ClusterHealth = "critical" => Len(analysis.OOMEvents) > 10

\* C28 witness: findings with all three critical issues, two of them with a
\* priority of at most 2, and ten OOM events: the health is not "critical".
C28_Witness ==
    /\ Analyzed
    /\ Len(analysis.CriticalIssues) = 3
    /\ Cardinality(UrgentIssues) = 2
    /\ Len(analysis.OOMEvents) = 10
    /\ analysis.ClusterHealth = "degraded"

(***************************************************************************)
(* The windows of one run.                                                 *)
(***************************************************************************)
\* Every entry of the narrow list is an entry of the wide one.
Within(narrow, wide) == \A i \in DOMAIN narrow : \E j \in DOMAIN wide : narrow[i] = wide[j]

\* C29: the records of a list of 24 hours are records of the wider list of
\* the same collection (7 days for the restarts, 48 hours for the Flux
\* events, the generic warnings and the backups), and no counter of 24
\* hours is greater than that of the wider window.
C29_WindowsNested ==
    Analyzed =>
        /\ Within(analysis.PodRestarts.Last24Hours, analysis.PodRestarts.Last7Days)
        /\ Within(analysis.FluxEvents.Last24Hours, analysis.FluxEvents.Last48Hours)
        /\ Within(analysis.NonFluxEvents.Last24Hours, analysis.NonFluxEvents.Last48Hours)
        /\ Within(analysis.VeleroBackups.Last24Hours, analysis.VeleroBackups.Last48Hours)
        /\ analysis.PodRestarts.TotalPods24h <= analysis.PodRestarts.TotalPods7d
        /\ analysis.FluxEvents.Warnings24h <= analysis.FluxEvents.Warnings48h
        /\ analysis.FluxEvents.Errors24h <= analysis.FluxEvents.Errors48h
        /\ analysis.NonFluxEvents.Warnings24h <= analysis.NonFluxEvents.Warnings48h
        /\ analysis.VeleroBackups.TotalBackups24h <= analysis.VeleroBackups.TotalBackups48h
        /\ analysis.VeleroBackups.FailedBackups24h <= analysis.VeleroBackups.FailedBackups48h

\* C29 witness: in each of the four collections the list of 24 hours is not
\* empty and the wider list holds a record more; the clock moved during the
\* run.
C29_Witness ==
    /\ Analyzed
    /\ clock > CHOOSE c \in ClockSamples : TRUE
    /\ analysis.PodRestarts.Last24Hours # <<>>
    /\ Len(analysis.PodRestarts.Last24Hours) < Len(analysis.PodRestarts.Last7Days)
    /\ analysis.PodRestarts.TotalPods24h < analysis.PodRestarts.TotalPods7d
    /\ analysis.FluxEvents.Last24Hours # <<>>
    /\ analysis.FluxEvents.Warnings24h < analysis.FluxEvents.Warnings48h
    /\ analysis.NonFluxEvents.Last24Hours # <<>>
    /\ analysis.NonFluxEvents.Warnings24h < analysis.NonFluxEvents.Warnings48h
    /\ analysis.VeleroBackups.Last24Hours # <<>>
    /\ analysis.VeleroBackups.FailedBackups24h < analysis.VeleroBackups.FailedBackups48h

(***************************************************************************)
(* The keys of the suggestions.                                            *)
(***************************************************************************)
\* The entries of the maps of suggestions of the snapshot, as triples of the
\* namespace, the key and the suggestion.
StoredEntries ==
    UNION {{<<byNamespace[1], entry[1], entry[2]>> : entry \in byNamespace[2].items} :
              byNamespace \in data.AISuggestions.items}

\* C30: every stored suggestion is keyed by its own pod name, "/" and its
\* own container name, which is the key the appendix looks up: the row of
\* the container a suggestion names finds the suggestion.
C30_KeyedByOwnNames ==
    /\ \A entry \in StoredEntries :
          entry[2] = SuggestionKey(entry[3].PodName, entry[3].ContainerName)
    /\ Rendered =>
          \A r \in DOMAIN RenderedRows : \A entry \in StoredEntries :
              (/\ entry[1] = RenderedRows[r].Namespace
               /\ entry[3].PodName = RenderedRows[r].PodName
               /\ entry[3].ContainerName = <<RenderedRows[r].ContainerName>>)
                  => entry[3] \in SuggestionsOfRow(RenderedRows[r])

====
